---- MODULE Spec2Model ----
(***************************************************************************)
(* copilot-ci-doctor: the oracle client contract (contract.js, index.js),  *)
(* the interactive fix command (fix.js) and the unattended watch loop      *)
(* (watch.js, single-call mode), over a model of the git working tree and  *)
(* of the GitHub Actions runs the poller observes.                         *)
(***************************************************************************)
EXTENDS Integers, Sequences, FiniteSets, TLC

\* ------------------------------------------------------------ constants
RESPONSE_VERSION == "CI_DOCTOR_RESPONSE_V1"
VALID_MODES == {"hypotheses", "explain", "patch", "combined"}
FIX_MIN_CONFIDENCE == 60
MIN_CONFIDENCE == 80
MAX_ITERATIONS == 5
POLL_INTERVAL_MS == 10000
POLL_TIMEOUT_MS == 180000

\* ------------------------------------------------------------ bounds
\* pre-existing ci-fix/<stamp> branches the repository may start with
MaxPre == 1
\* runs the pipeline may create during one execution
MaxRuns == 6
\* lines of a diff text handed to the normalizer
MaxLines == 5

\* ------------------------------------------------------------ JS values
\* A JS number n is int (+ 1/2 when half): 59.5 is [int |-> 59, half |-> TRUE].
Num(i) == [isNumber |-> TRUE, int |-> i, half |-> FALSE]
Half(i) == [isNumber |-> TRUE, int |-> i, half |-> TRUE]
NotNum == [isNumber |-> FALSE, int |-> 0, half |-> FALSE]
\* x < c and x > c for an integer literal c
NumLt(x, c) == x.int < c
NumGt(x, c) == x.int > c \/ (x.int = c /\ x.half)

\* A JS value in a string position: undefined, a string, or another truthy value.
Str(s) == [kind |-> "string", s |-> s]
Undef == [kind |-> "undefined", s |-> ""]
Other == [kind |-> "other", s |-> ""]
Falsy(x) == x.kind = "undefined" \/ (x.kind = "string" /\ x.s = "")

\* A JS value in an array position.
Arr(items) == [isArray |-> TRUE, items |-> items]
NoArr == [isArray |-> FALSE, items |-> << >>]

\* ------------------------------------------------------------ evidence bundle
BundleIds == {"E1", "E2", "E3", "E4", "E5"}

\* ------------------------------------------------------------ oracle responses
Hyp(conf, title, refs) == [confidence |-> conf, title |-> title, evidence_refs |-> refs]

GoodHyps == Arr(<< Hyp(Num(90), Str("cause"), Arr(<< "E2", "E4" >>)),
                   Hyp(Num(40), Str("other cause"), Arr(<< >>)) >>)

Resp(mode, conf, risk) ==
  [isObject |-> TRUE, version |-> RESPONSE_VERSION, mode |-> mode,
   hypotheses |-> GoodHyps, confidence |-> conf,
   summary |-> Str("why"), explanation |-> Str("because"),
   patch |-> Str("diff"), description |-> Str("fix it"),
   risk |-> risk, evidence_refs |-> Arr(<< "E4" >>)]

\* What JSON.parse may hand to validateResponse for a request of `mode`.
Parsed(mode) ==
  LET ok == Resp(mode, Num(95), Str("LOW")) IN
  { ok,
    Resp(mode, Num(95), Str("HIGH")),
    Resp(mode, Num(80), Undef),
    Resp(mode, Num(79), Str("high")),
    Resp(mode, Num(60), Str("MEDIUM")),
    Resp(mode, Num(59), Str("LOW")),
    Resp(mode, Num(30), Str("HIGH")),
    Resp(mode, Half(59), Str("LOW")),
    Resp(mode, Num(101), Str("LOW")),
    Resp(mode, Num(0 - 1), Str("LOW")),
    Resp(mode, NotNum, Str("LOW")),
    [ok EXCEPT !.isObject = FALSE],
    [ok EXCEPT !.version = "CI_DOCTOR_RESPONSE_V0"],
    [ok EXCEPT !.mode = "summary"],
    [ok EXCEPT !.mode = IF mode = "patch" THEN "combined" ELSE "patch"],
    [ok EXCEPT !.hypotheses = NoArr],
    [ok EXCEPT !.hypotheses = Arr(<< >>)],
    [ok EXCEPT !.hypotheses = Arr(<< Hyp(Num(90), Str("cause"), Arr(<< "E4" >>)),
                                      Hyp(Num(40), Str("other"), NoArr) >>)],
    [ok EXCEPT !.hypotheses = Arr(<< Hyp(Num(90), Undef, Arr(<< "E4" >>)) >>)],
    [ok EXCEPT !.hypotheses = Arr(<< Hyp(Num(90), Str("cause"), Arr(<< "E4" >>)),
                                      Hyp(Num(120), Str("other"), Arr(<< >>)) >>)],
    [ok EXCEPT !.hypotheses = Arr(<< Hyp(Num(90), Str("cause"), Arr(<< "E9" >>)) >>)],
    [ok EXCEPT !.summary = Undef],
    [ok EXCEPT !.explanation = Str("")],
    [ok EXCEPT !.patch = Str("")],
    [ok EXCEPT !.patch = Other],
    [ok EXCEPT !.description = Undef],
    [ok EXCEPT !.evidence_refs = NoArr] }

\* What the Copilot CLI call may produce: a failed call, empty output, output
\* holding no JSON object, or output whose JSON object parses.
NoResponse == [Resp("none", NotNum, Undef) EXCEPT !.isObject = FALSE, !.version = "none"]

CliOutputs(mode) ==
  { [kind |-> k, parsed |-> NoResponse] : k \in {"cli-error", "empty", "no-json"} }
  \cup { [kind |-> "json", parsed |-> p] : p \in Parsed(mode) }

\* ------------------------------------------------------------ contract.js
ConfidenceOk(c) == c.isNumber /\ ~NumLt(c, 0) /\ ~NumGt(c, 100)

\* (variant: the evidence_refs check of an entry left out)
HypothesisOk_NoRefs(h) ==
  /\ ConfidenceOk(h.confidence)
  /\ ~Falsy(h.title) /\ h.title.kind = "string"

HypothesisOk(h) ==
  /\ ConfidenceOk(h.confidence)
  /\ ~Falsy(h.title) /\ h.title.kind = "string"
  /\ h.evidence_refs.isArray

\* (variant: only the first entry of the list inspected)
validateHypotheses_FirstOnly(response) ==
  /\ response.hypotheses.isArray
  /\ Len(response.hypotheses.items) # 0
  /\ HypothesisOk(response.hypotheses.items[1])

validateHypotheses(response) ==
  /\ response.hypotheses.isArray
  /\ Len(response.hypotheses.items) # 0
  /\ \A i \in 1..Len(response.hypotheses.items) :
        HypothesisOk(response.hypotheses.items[i])

validateExplain(response) ==
  /\ ConfidenceOk(response.confidence)
  /\ ~Falsy(response.summary) /\ response.summary.kind = "string"
  /\ ~Falsy(response.explanation) /\ response.explanation.kind = "string"

validatePatch(response) ==
  /\ ConfidenceOk(response.confidence)
  /\ ~Falsy(response.patch) /\ response.patch.kind = "string"
  /\ ~Falsy(response.description) /\ response.description.kind = "string"

\* TRUE when validateResponse returns, FALSE when it throws.
\* (variant: a combined response held to the patch rules alone)
validateResponse_PatchOnly(response, expectedMode) ==
  /\ response.isObject
  /\ response.version = RESPONSE_VERSION
  /\ response.mode \in VALID_MODES
  /\ response.mode = expectedMode
  /\ CASE expectedMode = "hypotheses" -> validateHypotheses(response)
       [] expectedMode = "explain" -> validateExplain(response)
       [] expectedMode = "patch" -> validatePatch(response)
       [] expectedMode = "combined" -> validatePatch(response)
       [] OTHER -> TRUE

validateResponse(response, expectedMode) ==
  /\ response.isObject
  /\ response.version = RESPONSE_VERSION
  /\ response.mode \in VALID_MODES
  /\ response.mode = expectedMode
  /\ CASE expectedMode = "hypotheses" -> validateHypotheses(response)
       [] expectedMode = "explain" -> validateExplain(response)
       [] expectedMode = "patch" -> validatePatch(response)
       [] expectedMode = "combined" ->
            /\ validateHypotheses(response)
            /\ validateExplain(response)
            /\ validatePatch(response)
       [] OTHER -> TRUE

\* ------------------------------------------------------------ index.js
\* askCopilot: [ok |-> TRUE, value |-> the validated response] when it returns,
\* ok = FALSE when it throws.
\* (variant: step 4, the contract validation, left out)
askCopilot_NoValidate(out, mode) ==
  [ok |-> out.kind = "json", value |-> out.parsed]

askCopilot(out, mode) ==
  [ok |-> out.kind = "json" /\ validateResponse(out.parsed, mode),
   value |-> out.parsed]

\* ------------------------------------------------------------ diff text
\* A diff text is a sequence of symbols: the characters CR, LF and space, and
\* chunks of other characters that the normalizer only ever tests or rewrites
\* as a whole.  A hunk header chunk carries its parts as written.
Digits(zeros, val) == [zeros |-> zeros, val |-> val]
NoDigits == Digits(0, 0)
\* the optional ",<count>" of a header: `,?\d*`
Count(comma, digits, n) == [comma |-> comma, digits |-> digits, n |-> n]
NoCount == Count(FALSE, FALSE, NoDigits)

Sym(kind) ==
  [kind |-> kind, oldStart |-> NoDigits, oldCount |-> NoCount,
   newStart |-> NoDigits, newCount |-> NoCount, trailing |-> ""]
CR == Sym("CR")
LF == Sym("LF")
SP == Sym("SP")
\* "-a", "+b", "--- a/f", "@@ garbage @@"
Removed == Sym("removed")
Added == Sym("added")
FileHeader == Sym("fileheader")
Garbage == Sym("garbage")
\* "@@ -<oldStart><oldCount> +<newStart><newCount> @@<trailing>"
HunkHeader(oldStart, oldCount, newStart, newCount, trailing) ==
  [kind |-> "hunk", oldStart |-> oldStart, oldCount |-> oldCount,
   newStart |-> newStart, newCount |-> newCount, trailing |-> trailing]
\* "@@ -1,1 +1,1 @@"
H11 == HunkHeader(Digits(0, 1), Count(TRUE, TRUE, Digits(0, 1)),
                  Digits(0, 1), Count(TRUE, TRUE, Digits(0, 1)), "")
\* "@@ -007 +3, @@ fn"
HBare == HunkHeader(Digits(2, 7), NoCount, Digits(0, 3),
                    Count(TRUE, FALSE, NoDigits), " fn")

\* ------------------------------------------------------------ normalizePatch
\* String.prototype.replace(/\r/g, "")
StripCR(text) == SelectSeq(text, LAMBDA c : c.kind # "CR")

\* String.prototype.trimEnd()
IsSpace(c) == c.kind \in {"SP", "LF", "CR"}
\* (variant: only one final newline removed)
TrimEnd_One(text) ==
  IF text = << >> \/ text[Len(text)].kind # "LF" THEN text
  ELSE SubSeq(text, 1, Len(text) - 1)

RECURSIVE TrimEnd(_)
TrimEnd(text) ==
  IF text = << >> \/ ~IsSpace(text[Len(text)]) THEN text
  ELSE TrimEnd(SubSeq(text, 1, Len(text) - 1))

\* String.prototype.split("\n"): never empty, "" gives [""]
RECURSIVE Split(_)
Split(text) ==
  IF \A i \in DOMAIN text : text[i].kind # "LF" THEN << text >>
  ELSE LET k == CHOOSE i \in DOMAIN text :
                  text[i].kind = "LF" /\ \A j \in 1..(i - 1) : text[j].kind # "LF"
       IN << SubSeq(text, 1, k - 1) >> \o Split(SubSeq(text, k + 1, Len(text)))

\* Array.prototype.join("\n")
RECURSIVE Join(_)
Join(lines) ==
  IF lines = << >> THEN << >>
  ELSE IF Len(lines) = 1 THEN lines[1]
  ELSE lines[1] \o << LF >> \o Join(Tail(lines))

\* line.startsWith("@@")
StartsWithAtAt(l) == l # << >> /\ l[1].kind \in {"hunk", "garbage"}
\* l.startsWith("diff ") || l.startsWith("--- ") || l.startsWith("+++ ")
StartsWithFileHeader(l) == l # << >> /\ l[1].kind = "fileheader"
\* l.startsWith("-"), l.startsWith("+")
StartsWithMinus(l) == l # << >> /\ l[1].kind \in {"removed", "fileheader"}
StartsWithPlus(l) == l # << >> /\ l[1].kind = "added"

\* (variant: a pattern that any line starting with @@ matches)
Matches_Any(l) == l # << >> /\ l[1].kind \in {"hunk", "garbage"}

\* header.match(/^@@ -(\d+),?\d* \+(\d+),?\d* @@(.*)$/): `.` matches neither CR nor LF
Matches(l) ==
  /\ l # << >>
  /\ l[1].kind = "hunk"
  /\ \A i \in 2..Len(l) : l[i].kind \notin {"CR", "LF"}

\* parseInt(digits, 10) and the number as a template literal prints it
ParseInt(d) == d.val
Printed(n) == Digits(0, n)

\* (variant: a line that is neither removed nor added counts as old only)
RECURSIVE CountBody_OldOnly(_, _, _, _)
CountBody_OldOnly(lines, i, oldCount, newCount) ==
  IF i > Len(lines) THEN [old |-> oldCount, new |-> newCount]
  ELSE IF StartsWithAtAt(lines[i]) \/ StartsWithFileHeader(lines[i])
       THEN [old |-> oldCount, new |-> newCount]
  ELSE IF StartsWithMinus(lines[i])
       THEN CountBody_OldOnly(lines, i + 1, oldCount + 1, newCount)
  ELSE IF StartsWithPlus(lines[i])
       THEN CountBody_OldOnly(lines, i + 1, oldCount, newCount + 1)
  ELSE CountBody_OldOnly(lines, i + 1, oldCount + 1, newCount)

\* the counting loop of fixHunkHeader, from line i on
RECURSIVE CountBody(_, _, _, _)
CountBody(lines, i, oldCount, newCount) ==
  IF i > Len(lines) THEN [old |-> oldCount, new |-> newCount]
  ELSE IF StartsWithAtAt(lines[i]) \/ StartsWithFileHeader(lines[i])
       THEN [old |-> oldCount, new |-> newCount]
  ELSE IF StartsWithMinus(lines[i]) THEN CountBody(lines, i + 1, oldCount + 1, newCount)
  ELSE IF StartsWithPlus(lines[i]) THEN CountBody(lines, i + 1, oldCount, newCount + 1)
  ELSE CountBody(lines, i + 1, oldCount + 1, newCount + 1)

\* the header line rewritten with the counts; match[3] is the rest of the line
Rewritten(l, counts) ==
  << HunkHeader(Printed(ParseInt(l[1].oldStart)),
                Count(TRUE, TRUE, Printed(counts.old)),
                Printed(ParseInt(l[1].newStart)),
                Count(TRUE, TRUE, Printed(counts.new)),
                l[1].trailing) >> \o Tail(l)

\* fixHunkHeader(lines, hunkIdx): the array after the call (1-based index)
fixHunkHeader(lines, hunkIdx) ==
  IF ~Matches(lines[hunkIdx]) THEN lines
  ELSE [lines EXCEPT ![hunkIdx] =
          Rewritten(lines[hunkIdx], CountBody(lines, hunkIdx + 1, 0, 0))]

\* the scanning loop of normalizePatch from line i on; hunkStart is 0 for -1
RECURSIVE Scan(_, _, _, _)
Scan(lines, i, output, hunkStart) ==
  IF i > Len(lines)
  THEN IF hunkStart >= 1 THEN fixHunkHeader(output, hunkStart) ELSE output
  ELSE IF StartsWithAtAt(lines[i])
       THEN Scan(lines, i + 1,
                 Append(IF hunkStart >= 1 THEN fixHunkHeader(output, hunkStart)
                        ELSE output,
                        lines[i]),
                 Len(output) + 1)
       ELSE Scan(lines, i + 1, Append(output, lines[i]), hunkStart)

\* the lines normalizePatch works on
LinesOf(patchText) == Split(TrimEnd(StripCR(patchText)))

\* (variant: the text split without trimEnd)
normalizePatch_NoTrim(patchText) ==
  Join(Scan(Split(StripCR(patchText)), 1, << >>, 0)) \o << LF >>

normalizePatch(patchText) ==
  Join(Scan(LinesOf(patchText), 1, << >>, 0)) \o << LF >>

\* ------------------------------------------------------------ state
VARIABLES
  cmd,        \* the command being run: "fix" or "watch"
  yes,        \* options.yes of the fix command
  pc,         \* the command's position
  raw,        \* the output of the latest Copilot CLI call
  response,   \* what the latest askCopilot returned (NoResponse when it threw)
  cache,      \* latest-hypotheses.json, latest-explain.json, latest-patch.json
  git,        \* branches, active branch, previous branch, working tree, commits
  gate,       \* how far the current patch has got through the safe-apply steps:
              \* none, Proposed, PolicyChecked, DryRunValidated, BranchCreated,
              \* Applied, Committed, or how it ended otherwise: Rejected (policy),
              \* Declined (the user), DryRunFailed, RolledBack, Failed (a thrown error)
  entry,      \* the repository as it was when the current patch was proposed
  gitLog,     \* the git commands executed so far, in order
  iteration,  \* watch: the loop counter
  history,    \* watch: the iteration records pushed so far
  remaining,  \* poller: deadline - Date.now() of the wait in progress
  knownRunId, \* poller: the argument of waitForRunCompletion (0 for null)
  prevId,     \* poller: the argument of waitForNewRunToComplete (0 for null)
  newRunId,   \* poller: the new run waitForNewRunToComplete detected (0 for null)
  runs,       \* pipeline: the observable runs, by id
  nRuns,      \* pipeline: the id of the latest run (0 when there is none)
  pending,    \* pipeline: a push has not yet produced its run
  report,     \* watch: what the end of the run printed and did
  patchText,  \* normalizer: the diff text handed to normalizePatch
  normalized, \* normalizer: what normalizePatch returned for patchText
  renormalized, \* normalizer: what normalizePatch returned for `normalized`
  queryFailed, \* poller: some gh query of the run so far has failed
  branchName, \* the fix branch name the current gate invocation computed
  answer,     \* fix: what the user typed at the confirmation prompt
  copilotCalls \* the askCopilot calls made so far

watchVars == << iteration, history, remaining, knownRunId, prevId, newRunId,
                runs, nRuns, pending, report >>
normVars == << patchText, normalized, renormalized >>
vars == << cmd, yes, pc, raw, response, cache, git, gate, entry, gitLog, watchVars,
           normVars, queryFailed, branchName, answer, copilotCalls >>

NoOutput == [kind |-> "none", parsed |-> NoResponse]

\* ------------------------------------------------------------ git
Main == [kind |-> "main", ts |-> 0]
\* ci-fix/<YYYYMMDD-HHMMSS>: one name per wall-clock second `ts`
CiFix(ts) == [kind |-> "ci-fix", ts |-> ts]
IsCiFix(b) == b.kind = "ci-fix"
\* no branch name computed yet
NoBranch == [kind |-> "none", ts |-> 0]

\* new Date() in second `ts` of the clock, `ms` milliseconds into it; the
\* seconds are counted from 2026-12-31 23:59:57 local time (getMonth() is 0-based)
Clock(ts, ms) ==
  LET t == 57 + ts IN
  IF t < 60
  THEN [year |-> 2026, month |-> 11, date |-> 31, hours |-> 23, minutes |-> 59,
        seconds |-> t, ms |-> ms]
  ELSE [year |-> 2027, month |-> 0, date |-> 1, hours |-> 0, minutes |-> 0,
        seconds |-> t - 60, ms |-> ms]

DigitChar(d) == << "0", "1", "2", "3", "4", "5", "6", "7", "8", "9" >>[d + 1]
\* String(n): the decimal digits of n, no leading zero
RECURSIVE String(_)
String(n) == IF n < 10 THEN << DigitChar(n) >>
             ELSE Append(String(n \div 10), DigitChar(n % 10))
\* String(n).padStart(2, "0")
pad(n) == IF Len(String(n)) < 2 THEN << "0" >> \o String(n) ELSE String(n)
\* `ci-fix/${ts}`, the characters of the branch name computed at `now`
BranchNameAt(now) ==
  << "c", "i", "-", "f", "i", "x", "/" >> \o String(now.year) \o pad(now.month + 1)
    \o pad(now.date) \o << "-" >> \o pad(now.hours) \o pad(now.minutes)
    \o pad(now.seconds)

Max(S) == CHOOSE x \in S : \A y \in S : y <= x

\* The second the clock may show when a branch name is computed: that of an
\* existing ci-fix branch, or one no branch carries yet.
Stamps(g) ==
  LET used == {b.ts : b \in g.branches} IN (used \ {0}) \cup {Max(used) + 1}

\* (variant: `git checkout -B name`, which resets an existing branch)
CheckoutNewOk_Force(g, name, ok) == ok
\* git checkout -b name: refuses an existing name; `ok` is whether git itself succeeds
CheckoutNewOk(g, name, ok) == ok /\ name \notin g.branches
\* (variant: `git branch name`, which creates the branch without switching to it)
CheckoutNew_Stay(g, name) == [g EXCEPT !.branches = @ \cup {name}]
CheckoutNew(g, name) ==
  [g EXCEPT !.branches = @ \cup {name}, !.head = name, !.prev = g.head]
\* git checkout -
CheckoutPrev(g) == [g EXCEPT !.head = g.prev, !.prev = g.head]
\* git apply (all or nothing)
Apply(g) == [g EXCEPT !.tree = "patched"]
\* git add -A
AddAll(g) == [g EXCEPT !.tree = IF @ = "patched" THEN "staged" ELSE @]
\* (variant: a commit that leaves the index as it was)
Commit_KeepIndex(g) == [g EXCEPT !.commits = Append(@, g.head)]
\* git commit
Commit(g) == [g EXCEPT !.tree = "clean", !.commits = Append(@, g.head)]

\* a git command, whether it succeeded, the iteration that ran it (0 in the fix
\* command) and the active branch it left
LogEntry(op, ok, g) == [op |-> op, ok |-> ok, iter |-> iteration, head |-> g.head]
Logged(op, ok, g) == Append(gitLog, LogEntry(op, ok, g))

\* (response.risk || "").toUpperCase()
ToUpperCase(s) ==
  CASE s = "high" -> "HIGH"
    [] s = "low" -> "LOW"
    [] s = "medium" -> "MEDIUM"
    [] OTHER -> s
RiskOf(resp) == IF Falsy(resp.risk) THEN "" ELSE ToUpperCase(resp.risk.s)

\* ------------------------------------------------------------ fix.js
\* loadCachedBundle(): exits when no bundle is cached
FixLoadBundle ==
  /\ pc = "fix_load"
  /\ \E cached \in BOOLEAN : pc' = IF cached THEN "fix_ask" ELSE "exit1"
  /\ UNCHANGED << normVars, copilotCalls, answer, branchName, queryFailed, cmd, yes, raw, response, cache, git, gate, entry, gitLog, watchVars >>

\* askCopilot({mode: "patch"}), writeCache, display of the proposed fix
FixAskCopilot ==
  /\ pc = "fix_ask"
  /\ copilotCalls' = copilotCalls + 1
  /\ \E out \in CliOutputs("patch") :
       LET r == askCopilot(out, "patch") IN
       /\ raw' = out
       /\ IF r.ok
          THEN /\ response' = r.value
               /\ cache' = [cache EXCEPT !.patch = r.value]
               /\ gate' = "Proposed"
               /\ entry' = git
               \* response.evidence_refs.join throws on a missing list
               /\ pc' = IF r.value.evidence_refs.isArray THEN "fix_policy" ELSE "exit1"
          ELSE /\ pc' = "exit1"
               /\ response' = NoResponse
               /\ UNCHANGED << cache, gate, entry >>
  /\ UNCHANGED << normVars, answer, branchName, queryFailed, cmd, yes, git, gitLog, watchVars >>

\* (variant: `confidence <= 60` in place of `confidence < 60`)
FixPolicyPass_Le(resp) ==
  /\ NumGt(resp.confidence, FIX_MIN_CONFIDENCE)
  /\ RiskOf(resp) # "HIGH"

\* the decision of the safety gate: TRUE when the patch may go on
FixPolicyPass(resp) ==
  /\ ~NumLt(resp.confidence, FIX_MIN_CONFIDENCE)
  /\ RiskOf(resp) # "HIGH"

FixPolicy ==
  /\ pc = "fix_policy"
  /\ IF FixPolicyPass(response)
     THEN /\ gate' = "PolicyChecked"
          /\ pc' = IF yes THEN "fix_dryrun" ELSE "fix_confirm"
     ELSE /\ gate' = "Rejected"
          /\ pc' = "done"
  /\ UNCHANGED << normVars, copilotCalls, answer, branchName, queryFailed, cmd, yes, raw, response, cache, git, entry, gitLog, watchVars >>

\* what the user may type at the prompt
Answers == {"y", "Y", " y ", " Y", "yes", "n", "N", ""}
NoAnswer == "(not asked)"
\* answer.trim()
Trim(s) ==
  CASE s = " y " -> "y"
    [] s = " Y" -> "Y"
    [] OTHER -> s
\* .toLowerCase()
ToLowerCase(s) ==
  CASE s = "Y" -> "y"
    [] s = "N" -> "n"
    [] OTHER -> s
\* (variant: a prompt whose default is yes)
confirm_DefaultYes(typed) == ToLowerCase(Trim(typed)) \in {"y", ""}
\* confirm(question): resolve(answer.trim().toLowerCase() === "y")
confirm(typed) == ToLowerCase(Trim(typed)) = "y"

\* const yes = await confirm(...); if (!yes) return
FixConfirm ==
  /\ pc = "fix_confirm"
  /\ \E typed \in Answers :
       /\ answer' = typed
       /\ IF confirm(typed)
          THEN pc' = "fix_dryrun" /\ gate' = gate
          ELSE pc' = "done" /\ gate' = "Declined"
  /\ UNCHANGED << normVars, copilotCalls, branchName, queryFailed, cmd, yes, raw, response, cache, git, entry, gitLog, watchVars >>

\* normalizePatch, write proposed.patch, git apply --check
FixDryRun ==
  /\ pc = "fix_dryrun"
  /\ \E ok \in BOOLEAN :
       /\ gitLog' = Logged("apply-check", ok, git)
       /\ IF ok
          THEN pc' = "fix_branch" /\ gate' = "DryRunValidated"
          ELSE pc' = "done" /\ gate' = "DryRunFailed"
  /\ UNCHANGED << normVars, copilotCalls, answer, branchName, queryFailed, cmd, yes, raw, response, cache, git, entry, watchVars >>

\* git checkout -b ci-fix/<ts>; a failure is thrown to the outer catch
FixCreateBranch ==
  /\ pc = "fix_branch"
  /\ \E ts \in Stamps(git), ok \in BOOLEAN :
       LET created == CheckoutNewOk(git, CiFix(ts), ok) IN
       /\ branchName' = CiFix(ts)
       /\ gitLog' = Logged("checkout-b", created,
                          IF created THEN CheckoutNew(git, CiFix(ts)) ELSE git)
       /\ IF created
          THEN /\ git' = CheckoutNew(git, CiFix(ts))
               /\ gate' = "BranchCreated"
               /\ pc' = "fix_apply"
          ELSE /\ git' = git
               /\ gate' = "Failed"
               /\ pc' = "exit1"
  /\ UNCHANGED << normVars, copilotCalls, answer, queryFailed, cmd, yes, raw, response, cache, entry, watchVars >>

\* what `git checkout -` in the catch of a failed apply leaves behind; its own
\* failure is swallowed
Rollback(g, ok) == IF ok THEN CheckoutPrev(g) ELSE g

\* git apply; on failure git checkout - and return
FixApply ==
  /\ pc = "fix_apply"
  /\ \E ok \in BOOLEAN, back \in BOOLEAN :
       IF ok
       THEN /\ git' = Apply(git)
            /\ gitLog' = Logged("apply", TRUE, git)
            /\ gate' = "Applied"
            /\ pc' = "fix_stage"
       ELSE /\ git' = Rollback(git, back)
            /\ gitLog' = Append(Logged("apply", FALSE, git),
                                LogEntry("checkout-prev", back, Rollback(git, back)))
            /\ gate' = "RolledBack"
            /\ pc' = "done"
  /\ UNCHANGED << normVars, copilotCalls, answer, branchName, queryFailed, cmd, yes, raw, response, cache, entry, watchVars >>

\* git add -A; a failure is thrown to the outer catch
FixStage ==
  /\ pc = "fix_stage"
  /\ \E ok \in BOOLEAN :
       /\ gitLog' = Logged("add", ok, git)
       /\ IF ok
          THEN git' = AddAll(git) /\ pc' = "fix_commit" /\ gate' = gate
          ELSE git' = git /\ pc' = "exit1" /\ gate' = "Failed"
  /\ UNCHANGED << normVars, copilotCalls, answer, branchName, queryFailed, cmd, yes, raw, response, cache, entry, watchVars >>

\* git commit -m "CI Doctor: ..."; a failure is thrown to the outer catch
FixCommit ==
  /\ pc = "fix_commit"
  /\ \E ok \in BOOLEAN :
       /\ gitLog' = Logged("commit", ok, git)
       /\ IF ok
          THEN git' = Commit(git) /\ pc' = "done" /\ gate' = "Committed"
          ELSE git' = git /\ pc' = "exit1" /\ gate' = "Failed"
  /\ UNCHANGED << normVars, copilotCalls, answer, branchName, queryFailed, cmd, yes, raw, response, cache, entry, watchVars >>

fixCommand ==
  \/ FixLoadBundle \/ FixAskCopilot \/ FixPolicy \/ FixConfirm \/ FixDryRun
  \/ FixCreateBranch \/ FixApply \/ FixStage \/ FixCommit

\* ------------------------------------------------------------ pipeline
NoRun == [id |-> 0, status |-> "none", conclusion |-> "", origin |-> ""]
NewRun(id, origin) ==
  [id |-> id, status |-> "in_progress", conclusion |-> "", origin |-> origin]

\* The controller reads the pipeline only where it queries or sleeps; the
\* pipeline's steps are taken there.
ObservePoints == {"w_status", "w_wait_run", "w_prev", "w_wait_new", "w_wait_done"}

\* The runs a later query can still return: the latest one, and the run
\* waitForNewRunToComplete views by id.
Viewed == IF pc = "w_wait_done" THEN {newRunId} ELSE {}

\* a run is created, for the pending push or for some other event
EnvStartRun ==
  /\ pc \in ObservePoints
  /\ nRuns < MaxRuns
  /\ \E origin \in (IF pending THEN {"push"} ELSE {}) \cup {"other"} :
       /\ runs' = [i \in (DOMAIN runs \cap Viewed) \cup {nRuns + 1} |->
                     IF i = nRuns + 1 THEN NewRun(i, origin) ELSE runs[i]]
       /\ pending' = (pending /\ origin # "push")
  /\ nRuns' = nRuns + 1
  /\ UNCHANGED << normVars, copilotCalls, answer, branchName, queryFailed, cmd, yes, pc, raw, response, cache, git, gate, entry, gitLog,
                  iteration, history, remaining, knownRunId, prevId, newRunId, report >>

\* a run completes
EnvCompleteRun ==
  /\ pc \in ObservePoints
  /\ \E i \in DOMAIN runs, c \in {"success", "failure"} :
       /\ runs[i].status # "completed"
       /\ runs' = [runs EXCEPT ![i].status = "completed", ![i].conclusion = c]
  /\ UNCHANGED << normVars, copilotCalls, answer, branchName, queryFailed, cmd, yes, pc, raw, response, cache, git, gate, entry, gitLog,
                  iteration, history, remaining, knownRunId, prevId, newRunId,
                  nRuns, pending, report >>

\* ------------------------------------------------------------ watch.js: poller
\* getLatestRun(): the latest run, or null when there is none or the query fails
getLatestRun(ok) == IF ok /\ nRuns \in DOMAIN runs THEN runs[nRuns] ELSE NoRun

\* gh run view <id>: the run, or a thrown error (swallowed by the caller)
viewRun(id, ok) == IF ok /\ id \in DOMAIN runs THEN runs[id] ELSE NoRun

Rec(it, half, outcome, conf) ==
  [iteration |-> it, half |-> half, outcome |-> outcome, confidence |-> conf]

NoPoll ==
  /\ remaining' = 0 /\ knownRunId' = 0 /\ prevId' = 0 /\ newRunId' = 0

\* (variant: the status check without the success test after its wait)
StatusWaitReturns_NoSuccessTest(conclusion) ==
  /\ NoPoll
  /\ CASE conclusion = "timeout" -> pc' = "w_after" /\ history' = history
       [] OTHER -> pc' = "w_evidence" /\ history' = history

\* what watchCommand does with the conclusion waitForRunCompletion returned
StatusWaitReturns(conclusion) ==
  /\ NoPoll
  /\ CASE conclusion = "timeout" -> pc' = "w_after" /\ history' = history
       [] conclusion = "success" ->
            /\ pc' = "w_after"
            /\ history' = Append(history, Rec(iteration, FALSE, "success", NotNum))
       [] OTHER -> pc' = "w_evidence" /\ history' = history

\* (variant: a new run that failed ends the loop as well)
NewRunWaitReturns_StopOnFailure(conclusion) ==
  /\ NoPoll
  /\ CASE conclusion = "success" ->
            /\ pc' = "w_after"
            /\ history' = Append(history, Rec(iteration, TRUE, "success", NotNum))
       [] conclusion = "timeout" ->
            /\ pc' = "w_after"
            /\ history' = Append(history, Rec(iteration, TRUE, "timeout", NotNum))
       [] OTHER -> pc' = "w_after" /\ history' = history

\* what watchCommand does with the conclusion waitForNewRunToComplete returned
NewRunWaitReturns(conclusion) ==
  /\ NoPoll
  /\ CASE conclusion = "success" ->
            /\ pc' = "w_after"
            /\ history' = Append(history, Rec(iteration, TRUE, "success", NotNum))
       [] conclusion = "timeout" ->
            /\ pc' = "w_after"
            /\ history' = Append(history, Rec(iteration, TRUE, "timeout", NotNum))
       [] OTHER -> pc' = "w_loop" /\ history' = history

\* while (iteration < MAX_ITERATIONS) { iteration++; ...
WatchIterate ==
  /\ pc = "w_loop"
  /\ IF iteration < MAX_ITERATIONS
     THEN /\ iteration' = iteration + 1
          /\ pc' = "w_status"
          \* `response` is a binding of the loop body: a new turn has none yet
          /\ response' = NoResponse
          /\ gate' = "none"
          /\ branchName' = NoBranch
     ELSE /\ pc' = "w_after"
          /\ UNCHANGED << iteration, response, gate, branchName >>
  /\ UNCHANGED << normVars, copilotCalls, answer, queryFailed, cmd, yes, raw, cache, git, entry, gitLog,
                  history, remaining, knownRunId, prevId, newRunId,
                  runs, nRuns, pending, report >>

\* the status check at the head of an iteration, given what getLatestRun returned
StatusCheck(run) ==
  CASE run.id = 0 \/ run.status # "completed" ->
         /\ pc' = "w_wait_run"
         /\ remaining' = POLL_TIMEOUT_MS
         /\ knownRunId' = run.id
         /\ UNCHANGED << history, prevId, newRunId >>
    [] run.id # 0 /\ run.status = "completed" /\ run.conclusion = "success" ->
         /\ pc' = "w_after"
         /\ history' = Append(history, Rec(iteration, FALSE, "success", NotNum))
         /\ UNCHANGED << remaining, knownRunId, prevId, newRunId >>
    [] OTHER ->
         /\ pc' = "w_evidence"
         /\ UNCHANGED << history, remaining, knownRunId, prevId, newRunId >>

\* the call of waitForNewRunToComplete, given what getLatestRun returned after the push
ReadPrev(run) ==
  /\ prevId' = run.id
  /\ remaining' = POLL_TIMEOUT_MS
  /\ newRunId' = 0
  /\ pc' = "w_wait_new"

\* --- the poller against the pipeline, one sleep-and-query turn at a time
\* `remaining` is deadline - Date.now() at the loop test; a turn sleeps, queries
\* and, when the run is not there yet, tests the deadline again, so the turn
\* that uses up the time also leaves the loop.
PollCheckStatus ==
  /\ pc = "w_status"
  /\ \E ok \in BOOLEAN :
       /\ StatusCheck(getLatestRun(ok))
       /\ queryFailed' = (queryFailed \/ ~ok)
  /\ UNCHANGED << normVars, copilotCalls, answer, branchName, cmd, yes, raw, response, cache, git, gate, entry, gitLog,
                  iteration, runs, nRuns, pending, report >>

\* one turn of the loop of waitForRunCompletion, and its return
WaitRunTick ==
  /\ pc = "w_wait_run"
  /\ \E ok \in BOOLEAN :
       LET run == getLatestRun(ok) IN
       /\ queryFailed' = (queryFailed \/ ~ok)
       /\ IF run.id # 0 /\ run.status = "completed"
          THEN StatusWaitReturns(run.conclusion)
          ELSE IF remaining - POLL_INTERVAL_MS > 0
          THEN /\ remaining' = remaining - POLL_INTERVAL_MS
               /\ UNCHANGED << pc, history, knownRunId, prevId, newRunId >>
          ELSE StatusWaitReturns("timeout")
  /\ UNCHANGED << normVars, copilotCalls, answer, branchName, cmd, yes, raw, response, cache, git, gate, entry, gitLog,
                  iteration, runs, nRuns, pending, report >>

PollReadPrev ==
  /\ pc = "w_prev"
  /\ \E ok \in BOOLEAN :
       /\ ReadPrev(getLatestRun(ok))
       /\ queryFailed' = (queryFailed \/ ~ok)
  /\ UNCHANGED << normVars, copilotCalls, answer, branchName, cmd, yes, raw, response, cache, git, gate, entry, gitLog,
                  iteration, history, knownRunId, runs, nRuns, pending, report >>

\* (variant: the first loop of waitForNewRunToComplete never tests its deadline)
WaitNewTick_NoDeadline ==
  /\ pc = "w_wait_new"
  /\ \E ok \in BOOLEAN :
       LET run == getLatestRun(ok) IN
       /\ queryFailed' = (queryFailed \/ ~ok)
       /\ IF run.id # 0 /\ run.id # prevId
          THEN /\ newRunId' = run.id
               /\ remaining' = POLL_TIMEOUT_MS
               /\ pc' = "w_wait_done"
               /\ UNCHANGED << history, knownRunId, prevId >>
          ELSE UNCHANGED << pc, history, remaining, knownRunId, prevId, newRunId >>
  /\ UNCHANGED << normVars, copilotCalls, answer, branchName, cmd, yes, raw, response, cache, git, gate, entry, gitLog,
                  iteration, runs, nRuns, pending, report >>

\* one turn of the first loop of waitForNewRunToComplete
WaitNewTick ==
  /\ pc = "w_wait_new"
  /\ \E ok \in BOOLEAN :
       LET run == getLatestRun(ok) IN
       /\ queryFailed' = (queryFailed \/ ~ok)
       /\ IF run.id # 0 /\ run.id # prevId
          THEN /\ newRunId' = run.id
               \* const completionDeadline = Date.now() + POLL_TIMEOUT_MS
               /\ remaining' = POLL_TIMEOUT_MS
               /\ pc' = "w_wait_done"
               /\ UNCHANGED << history, knownRunId, prevId >>
          ELSE IF remaining - POLL_INTERVAL_MS > 0
          THEN /\ remaining' = remaining - POLL_INTERVAL_MS
               /\ UNCHANGED << pc, history, knownRunId, prevId, newRunId >>
          ELSE NewRunWaitReturns("timeout")
  /\ UNCHANGED << normVars, copilotCalls, answer, branchName, cmd, yes, raw, response, cache, git, gate, entry, gitLog,
                  iteration, runs, nRuns, pending, report >>

\* (variant: the second loop queries the latest run instead of the detected one)
WaitDoneTick_Latest ==
  /\ pc = "w_wait_done"
  /\ \E ok \in BOOLEAN :
       LET data == getLatestRun(ok) IN
       /\ queryFailed' = (queryFailed \/ ~ok)
       /\ IF data.status = "completed"
          THEN NewRunWaitReturns(data.conclusion)
          ELSE IF remaining - POLL_INTERVAL_MS > 0
          THEN /\ remaining' = remaining - POLL_INTERVAL_MS
               /\ UNCHANGED << pc, history, knownRunId, prevId, newRunId >>
          ELSE NewRunWaitReturns("timeout")
  /\ UNCHANGED << normVars, copilotCalls, answer, branchName, cmd, yes, raw, response, cache, git, gate, entry, gitLog,
                  iteration, runs, nRuns, pending, report >>

\* one turn of the second loop of waitForNewRunToComplete
WaitDoneTick ==
  /\ pc = "w_wait_done"
  /\ \E ok \in BOOLEAN :
       LET data == viewRun(newRunId, ok) IN
       /\ queryFailed' = (queryFailed \/ ~ok)
       /\ IF data.status = "completed"
          THEN NewRunWaitReturns(data.conclusion)
          ELSE IF remaining - POLL_INTERVAL_MS > 0
          THEN /\ remaining' = remaining - POLL_INTERVAL_MS
               /\ UNCHANGED << pc, history, knownRunId, prevId, newRunId >>
          ELSE NewRunWaitReturns("timeout")
  /\ UNCHANGED << normVars, copilotCalls, answer, branchName, cmd, yes, raw, response, cache, git, gate, entry, gitLog,
                  iteration, runs, nRuns, pending, report >>

\* --- the same calls as the controller sees them: a query returns a run or
\* null, a wait returns a conclusion or "timeout"
RunViews ==
  { NoRun, NewRun(1, "other"),
    [id |-> 1, status |-> "completed", conclusion |-> "success", origin |-> "other"],
    [id |-> 1, status |-> "completed", conclusion |-> "failure", origin |-> "other"] }
Conclusions == {"success", "failure", "cancelled", "timeout"}

WatchCheckStatus ==
  /\ pc = "w_status"
  /\ \E run \in RunViews : StatusCheck(run)
  /\ UNCHANGED << normVars, copilotCalls, answer, branchName, queryFailed, cmd, yes, raw, response, cache, git, gate, entry, gitLog,
                  iteration, runs, nRuns, pending, report >>

waitForRunCompletion ==
  /\ pc = "w_wait_run"
  /\ \E conclusion \in Conclusions : StatusWaitReturns(conclusion)
  /\ UNCHANGED << normVars, copilotCalls, answer, branchName, queryFailed, cmd, yes, raw, response, cache, git, gate, entry, gitLog,
                  iteration, runs, nRuns, pending, report >>

WatchReadPrev ==
  /\ pc = "w_prev"
  /\ \E run \in RunViews : ReadPrev(run)
  /\ UNCHANGED << normVars, copilotCalls, answer, branchName, queryFailed, cmd, yes, raw, response, cache, git, gate, entry, gitLog,
                  iteration, history, knownRunId, runs, nRuns, pending, report >>

waitForNewRunToComplete ==
  /\ pc = "w_wait_new"
  /\ \E conclusion \in Conclusions : NewRunWaitReturns(conclusion)
  /\ UNCHANGED << normVars, copilotCalls, answer, branchName, queryFailed, cmd, yes, raw, response, cache, git, gate, entry, gitLog,
                  iteration, runs, nRuns, pending, report >>

\* ------------------------------------------------------------ watch.js: controller
pollVars == << remaining, knownRunId, prevId, newRunId >>
ciVars == << runs, nRuns, pending >>

\* buildEvidenceBundle(): throws when the evidence cannot be collected
WatchCollectEvidence ==
  /\ pc = "w_evidence"
  /\ \E ok \in BOOLEAN : pc' = IF ok THEN "w_ask" ELSE "exit1"
  /\ UNCHANGED << normVars, copilotCalls, answer, branchName, queryFailed, cmd, yes, raw, response, cache, git, gate, entry, gitLog,
                  iteration, history, pollVars, ciVars, report >>

\* askCopilot({mode: "combined"}), the three writeCache calls, the display
WatchAskCopilot ==
  /\ pc = "w_ask"
  /\ copilotCalls' = copilotCalls + 1
  /\ \E out \in CliOutputs("combined") :
       LET r == askCopilot(out, "combined") IN
       /\ raw' = out
       /\ IF r.ok
          THEN /\ response' = r.value
               /\ cache' = [hypotheses |-> r.value, explain |-> r.value, patch |-> r.value]
               /\ gate' = "Proposed"
               /\ entry' = git
               \* response.evidence_refs.join throws on a missing list
               /\ pc' = IF r.value.evidence_refs.isArray THEN "w_conf" ELSE "exit1"
          ELSE /\ pc' = "exit1"
               /\ response' = NoResponse
               /\ UNCHANGED << cache, gate, entry >>
  /\ UNCHANGED << normVars, answer, branchName, queryFailed, cmd, yes, git, gitLog, iteration, history, pollVars, ciVars, report >>

\* (variant: the interactive threshold in place of MIN_CONFIDENCE)
WatchPolicyPass_Fix(resp) == ~NumLt(resp.confidence, FIX_MIN_CONFIDENCE)

\* the decision of the confidence threshold: TRUE when the patch may go on
WatchPolicyPass(resp) == ~NumLt(resp.confidence, MIN_CONFIDENCE)

WatchConfidence ==
  /\ pc = "w_conf"
  /\ IF WatchPolicyPass(response)
     THEN /\ gate' = "PolicyChecked"
          /\ pc' = "w_dryrun"
          /\ history' = history
     ELSE /\ gate' = "Rejected"
          /\ pc' = "w_after"
          /\ history' = Append(history,
                          Rec(iteration, FALSE, "low-confidence", response.confidence))
  /\ UNCHANGED << normVars, copilotCalls, answer, branchName, queryFailed, cmd, yes, raw, response, cache, git, entry, gitLog,
                  iteration, pollVars, ciVars, report >>

\* (variant: the catch of the pre-flight check records the failure and goes on)
WatchDryRun_NoBreak ==
  /\ pc = "w_dryrun"
  /\ \E ok \in BOOLEAN :
       /\ gitLog' = Logged("apply-check", ok, git)
       /\ pc' = "w_branch"
       /\ gate' = IF ok THEN "DryRunValidated" ELSE "DryRunFailed"
       /\ history' = IF ok THEN history
                     ELSE Append(history, Rec(iteration, FALSE, "apply-failed", NotNum))
  /\ UNCHANGED << normVars, copilotCalls, answer, branchName, queryFailed, cmd, yes, raw, response, cache, git, entry,
                  iteration, pollVars, ciVars, report >>

\* normalizePatch, write proposed.patch, git apply --check
WatchDryRun ==
  /\ pc = "w_dryrun"
  /\ \E ok \in BOOLEAN :
       /\ gitLog' = Logged("apply-check", ok, git)
       /\ IF ok
          THEN pc' = "w_branch" /\ gate' = "DryRunValidated" /\ history' = history
          ELSE /\ pc' = "w_after"
               /\ gate' = "DryRunFailed"
               /\ history' = Append(history, Rec(iteration, FALSE, "apply-failed", NotNum))
  /\ UNCHANGED << normVars, copilotCalls, answer, branchName, queryFailed, cmd, yes, raw, response, cache, git, entry,
                  iteration, pollVars, ciVars, report >>

\* git checkout -b ci-fix/<ts>; a failure is thrown to the outer catch
WatchCreateBranch ==
  /\ pc = "w_branch"
  /\ \E ts \in Stamps(git), ok \in BOOLEAN :
       LET created == CheckoutNewOk(git, CiFix(ts), ok) IN
       /\ branchName' = CiFix(ts)
       /\ gitLog' = Logged("checkout-b", created,
                          IF created THEN CheckoutNew(git, CiFix(ts)) ELSE git)
       /\ IF created
          THEN /\ git' = CheckoutNew(git, CiFix(ts))
               /\ gate' = "BranchCreated"
               /\ pc' = "w_apply"
          ELSE /\ git' = git
               /\ gate' = "Failed"
               /\ pc' = "exit1"
  /\ UNCHANGED << normVars, copilotCalls, answer, queryFailed, cmd, yes, raw, response, cache, entry,
                  iteration, history, pollVars, ciVars, report >>

\* (variant: the catch of git apply records the failure and goes on)
WatchApply_NoBreak ==
  /\ pc = "w_apply"
  /\ \E ok \in BOOLEAN, back \in BOOLEAN :
       IF ok
       THEN /\ git' = Apply(git)
            /\ gitLog' = Logged("apply", TRUE, git)
            /\ gate' = "Applied"
            /\ pc' = "w_stage"
            /\ history' = history
       ELSE /\ git' = Rollback(git, back)
            /\ gitLog' = Append(Logged("apply", FALSE, git),
                                LogEntry("checkout-prev", back, Rollback(git, back)))
            /\ gate' = "RolledBack"
            /\ pc' = "w_stage"
            /\ history' = Append(history, Rec(iteration, FALSE, "apply-failed", NotNum))
  /\ UNCHANGED << normVars, copilotCalls, answer, branchName, queryFailed, cmd, yes, raw, response, cache, entry,
                  iteration, pollVars, ciVars, report >>

\* git apply; on failure git checkout -, the apply-failed record and break
WatchApply ==
  /\ pc = "w_apply"
  /\ \E ok \in BOOLEAN, back \in BOOLEAN :
       IF ok
       THEN /\ git' = Apply(git)
            /\ gitLog' = Logged("apply", TRUE, git)
            /\ gate' = "Applied"
            /\ pc' = "w_stage"
            /\ history' = history
       ELSE /\ git' = Rollback(git, back)
            /\ gitLog' = Append(Logged("apply", FALSE, git),
                                LogEntry("checkout-prev", back, Rollback(git, back)))
            /\ gate' = "RolledBack"
            /\ pc' = "w_after"
            /\ history' = Append(history, Rec(iteration, FALSE, "apply-failed", NotNum))
  /\ UNCHANGED << normVars, copilotCalls, answer, branchName, queryFailed, cmd, yes, raw, response, cache, entry,
                  iteration, pollVars, ciVars, report >>

\* git add -A; a failure is thrown to the outer catch
WatchStage ==
  /\ pc = "w_stage"
  /\ \E ok \in BOOLEAN :
       /\ gitLog' = Logged("add", ok, git)
       /\ IF ok
          THEN git' = AddAll(git) /\ pc' = "w_commit" /\ gate' = gate
          ELSE git' = git /\ pc' = "exit1" /\ gate' = "Failed"
  /\ UNCHANGED << normVars, copilotCalls, answer, branchName, queryFailed, cmd, yes, raw, response, cache, entry,
                  iteration, history, pollVars, ciVars, report >>

\* git commit -m "CI Doctor: ..."; a failure is thrown to the outer catch
WatchCommit ==
  /\ pc = "w_commit"
  /\ \E ok \in BOOLEAN :
       /\ gitLog' = Logged("commit", ok, git)
       /\ IF ok
          THEN git' = Commit(git) /\ pc' = "w_push" /\ gate' = "Committed"
          ELSE git' = git /\ pc' = "exit1" /\ gate' = "Failed"
  /\ UNCHANGED << normVars, copilotCalls, answer, branchName, queryFailed, cmd, yes, raw, response, cache, entry,
                  iteration, history, pollVars, ciVars, report >>

\* (variant: the catch of git push records the failure and goes on to the wait)
WatchPush_NoBreak ==
  /\ pc = "w_push"
  /\ \E ok \in BOOLEAN :
       /\ gitLog' = Logged("push", ok, git)
       /\ IF ok
          THEN /\ pc' = "w_prev"
               /\ pending' = TRUE
               /\ history' = Append(history,
                               Rec(iteration, FALSE, "fix-pushed", response.confidence))
          ELSE /\ pc' = "w_prev"
               /\ pending' = pending
               /\ history' = Append(history, Rec(iteration, FALSE, "push-failed", NotNum))
  /\ UNCHANGED << normVars, copilotCalls, answer, branchName, queryFailed, cmd, yes, raw, response, cache, git, gate, entry,
                  iteration, pollVars, runs, nRuns, report >>

\* (variant: a failed git push is tried again)
WatchPush_Retry ==
  /\ pc = "w_push"
  /\ \E ok \in BOOLEAN :
       /\ gitLog' = Logged("push", ok, git)
       /\ IF ok
          THEN /\ pc' = "w_prev"
               /\ pending' = TRUE
               /\ history' = Append(history,
                               Rec(iteration, FALSE, "fix-pushed", response.confidence))
          ELSE /\ pc' = "w_push"
               /\ pending' = pending
               /\ history' = history
  /\ UNCHANGED << normVars, copilotCalls, answer, branchName, queryFailed, cmd, yes, raw, response, cache, git, gate, entry,
                  iteration, pollVars, runs, nRuns, report >>

\* git push -u origin <branch>, then the fix-pushed record
WatchPush ==
  /\ pc = "w_push"
  /\ \E ok \in BOOLEAN :
       /\ gitLog' = Logged("push", ok, git)
       /\ IF ok
          THEN /\ pc' = "w_prev"
               /\ pending' = TRUE
               /\ history' = Append(history,
                               Rec(iteration, FALSE, "fix-pushed", response.confidence))
          ELSE /\ pc' = "w_after"
               /\ pending' = pending
               /\ history' = Append(history, Rec(iteration, FALSE, "push-failed", NotNum))
  /\ UNCHANGED << normVars, copilotCalls, answer, branchName, queryFailed, cmd, yes, raw, response, cache, git, gate, entry,
                  iteration, pollVars, runs, nRuns, report >>

\* printWatchScoreboard: the verdict read off the last history record
lastOutcome(h) == IF Len(h) > 0 THEN h[Len(h)].outcome ELSE "unknown"
Reason(outcome) ==
  CASE outcome = "low-confidence" -> "confidence too low"
    [] outcome = "timeout" -> "timed out"
    [] outcome = "push-failed" -> "push failed"
    [] outcome = "apply-failed" -> "patch apply failed"
    [] OTHER -> "max iterations reached"

\* the code after the loop: the max-iterations warning and the scoreboard,
\* which opens a pull request for the active branch when the run ended fixed
WatchScoreboard ==
  /\ pc = "w_after"
  /\ LET fixed == lastOutcome(history) = "success" IN
     \* gh pr create --base main --head <branch> fails when the branch is main
     \E prOk \in (IF git.head = Main THEN {FALSE} ELSE BOOLEAN) :
       report' = [printed |-> TRUE,
                  warnedMax |-> iteration >= MAX_ITERATIONS,
                  fixed |-> fixed,
                  reason |-> IF fixed THEN "" ELSE Reason(lastOutcome(history)),
                  pr |-> IF fixed /\ prOk THEN "created" ELSE "none",
                  prHead |-> IF fixed /\ prOk THEN git.head ELSE Main]
  /\ pc' = "done"
  /\ UNCHANGED << normVars, copilotCalls, answer, branchName, queryFailed, cmd, yes, raw, response, cache, git, gate, entry, gitLog,
                  iteration, history, pollVars, ciVars >>

watchSteps ==
  \/ WatchIterate \/ WatchCollectEvidence \/ WatchAskCopilot \/ WatchConfidence
  \/ WatchDryRun \/ WatchCreateBranch \/ WatchApply \/ WatchStage \/ WatchCommit
  \/ WatchPush \/ WatchScoreboard

watchCommand ==
  \/ watchSteps
  \/ WatchCheckStatus \/ waitForRunCompletion \/ WatchReadPrev \/ waitForNewRunToComplete

poller == PollCheckStatus \/ WaitRunTick \/ PollReadPrev \/ WaitNewTick \/ WaitDoneTick

pipeline == EnvStartRun \/ EnvCompleteRun

\* ------------------------------------------------------------ specification
InitGit ==
  \E pre \in SUBSET {CiFix(t) : t \in 1..MaxPre} :
    \E h \in {Main} \cup pre :
      git = [branches |-> {Main} \cup pre, head |-> h, prev |-> h,
             tree |-> "clean", commits |-> << >>]

NoReport == [printed |-> FALSE, warnedMax |-> FALSE, fixed |-> FALSE,
             reason |-> "", pr |-> "none", prHead |-> Main]

\* the pipeline at the start of a polled run: no run yet, or one run in any state
InitRuns ==
  \/ runs = << >> /\ nRuns = 0
  \/ /\ nRuns = 1
     /\ \E st \in {"in_progress", "success", "failure"} :
          runs = [i \in {1} |->
                    IF st = "in_progress" THEN NewRun(1, "other")
                    ELSE [id |-> 1, status |-> "completed", conclusion |-> st,
                          origin |-> "other"]]

Init ==
  /\ cmd \in {"fix", "watch"}
  /\ yes \in (IF cmd = "fix" THEN BOOLEAN ELSE {FALSE})
  /\ pc = IF cmd = "fix" THEN "fix_load" ELSE "w_loop"
  /\ raw = NoOutput
  /\ response = NoResponse
  /\ cache = [hypotheses |-> NoResponse, explain |-> NoResponse, patch |-> NoResponse]
  /\ InitGit
  /\ gate = "none"
  /\ entry = git
  /\ gitLog = << >>
  /\ iteration = 0
  /\ history = << >>
  /\ remaining = 0 /\ knownRunId = 0 /\ prevId = 0 /\ newRunId = 0
  /\ runs = << >> /\ nRuns = 0
  /\ pending = FALSE
  /\ report = NoReport
  /\ patchText = << >> /\ normalized = << >> /\ renormalized = << >>
  /\ queryFailed = FALSE
  /\ branchName = NoBranch
  /\ answer = NoAnswer
  /\ copilotCalls = 0

Next == fixCommand \/ watchCommand

Spec == Init /\ [][Next]_vars

\* The poller run against the pipeline: an iteration at its status check, or
\* an iteration whose fix has just been pushed.
InitPoll ==
  /\ cmd = "watch" /\ yes = FALSE
  /\ raw = NoOutput
  /\ response = NoResponse
  /\ cache = [hypotheses |-> NoResponse, explain |-> NoResponse, patch |-> NoResponse]
  /\ InitGit
  /\ gate = "none"
  /\ entry = git
  /\ gitLog = << >>
  /\ iteration = 1
  /\ remaining = 0 /\ knownRunId = 0 /\ prevId = 0 /\ newRunId = 0
  /\ InitRuns
  /\ report = NoReport
  /\ patchText = << >> /\ normalized = << >> /\ renormalized = << >>
  /\ queryFailed = FALSE
  /\ branchName = NoBranch
  /\ answer = NoAnswer
  /\ copilotCalls = 0
  /\ \/ pc = "w_status" /\ history = << >> /\ pending = FALSE
     \/ /\ pc = "w_prev"
        /\ history = << Rec(1, FALSE, "fix-pushed", Num(95)) >>
        /\ pending = TRUE

NextPoll == poller \/ pipeline

SpecPoll == InitPoll /\ [][NextPoll]_vars

\* The watch command with its poller run one turn at a time against the
\* pipeline.  The Copilot CLI gives one of three outputs: a valid response the
\* threshold lets through, a valid one it stops, or nothing.
FewOutputs ==
  { [kind |-> "json", parsed |-> Resp("combined", Num(95), Str("LOW"))],
    [kind |-> "json", parsed |-> Resp("combined", Num(79), Str("LOW"))],
    [kind |-> "empty", parsed |-> NoResponse] }

WatchAskFew == WatchAskCopilot /\ raw' \in FewOutputs

InitWatch ==
  /\ cmd = "watch" /\ yes = FALSE
  /\ pc = "w_loop"
  /\ raw = NoOutput
  /\ response = NoResponse
  /\ cache = [hypotheses |-> NoResponse, explain |-> NoResponse, patch |-> NoResponse]
  /\ InitGit
  /\ gate = "none"
  /\ entry = git
  /\ gitLog = << >>
  /\ iteration = 0
  /\ history = << >>
  /\ remaining = 0 /\ knownRunId = 0 /\ prevId = 0 /\ newRunId = 0
  /\ InitRuns
  /\ pending = FALSE
  /\ report = NoReport
  /\ patchText = << >> /\ normalized = << >> /\ renormalized = << >>
  /\ queryFailed = FALSE
  /\ branchName = NoBranch
  /\ answer = NoAnswer
  /\ copilotCalls = 0

NextWatch ==
  \/ WatchIterate \/ WatchCollectEvidence \/ WatchAskFew \/ WatchConfidence
  \/ WatchDryRun \/ WatchCreateBranch \/ WatchApply \/ WatchStage \/ WatchCommit
  \/ WatchPush \/ WatchScoreboard
  \/ poller
  \/ pipeline

SpecWatch == InitWatch /\ [][NextWatch]_vars

\* The normalizer on its own: normalizePatch applied to a diff text, and again
\* to its own result.
\* what a line of the text may hold
LineKinds == { << H11 >>, << HBare >>, << Garbage >>, << Removed >>, << Added >>,
               << FileHeader >>, << >> }
\* how the lines are put together: joined by LF, each ended by CR LF, or
\* joined by LF and followed by a space and two blank lines
Dressings == {"lf", "crlf", "padded"}
RECURSIVE EndEach(_)
EndEach(lines) ==
  IF lines = << >> THEN << >> ELSE lines[1] \o << CR, LF >> \o EndEach(Tail(lines))
Dress(lines, d) ==
  CASE d = "lf" -> Join(lines)
    [] d = "crlf" -> EndEach(lines)
    [] OTHER -> Join(lines) \o << SP, LF, LF >>
PatchTexts(maxLines) ==
  { Dress(lines, d) :
      lines \in UNION { [1..n -> LineKinds] : n \in 0..maxLines },
      d \in Dressings }

InitNorm ==
  /\ cmd = "fix" /\ yes = FALSE
  /\ pc = "n_input"
  /\ raw = NoOutput
  /\ response = NoResponse
  /\ cache = [hypotheses |-> NoResponse, explain |-> NoResponse, patch |-> NoResponse]
  /\ git = [branches |-> {Main}, head |-> Main, prev |-> Main,
            tree |-> "clean", commits |-> << >>]
  /\ gate = "none"
  /\ entry = git
  /\ gitLog = << >>
  /\ iteration = 0
  /\ history = << >>
  /\ remaining = 0 /\ knownRunId = 0 /\ prevId = 0 /\ newRunId = 0
  /\ runs = << >> /\ nRuns = 0
  /\ pending = FALSE
  /\ report = NoReport
  /\ patchText \in PatchTexts(MaxLines)
  /\ normalized = << >> /\ renormalized = << >>
  /\ queryFailed = FALSE
  /\ branchName = NoBranch
  /\ answer = NoAnswer
  /\ copilotCalls = 0

otherVars == << cmd, yes, raw, response, cache, git, gate, entry, gitLog, watchVars,
               queryFailed, branchName, answer, copilotCalls >>

\* const normalizedPatch = normalizePatch(response.patch)
Normalize ==
  /\ pc = "n_input"
  /\ normalized' = normalizePatch(patchText)
  /\ pc' = "n_once"
  /\ UNCHANGED << otherVars, patchText, renormalized >>

\* normalizePatch applied to its own result
NormalizeAgain ==
  /\ pc = "n_once"
  /\ renormalized' = normalizePatch(normalized)
  /\ pc' = "n_twice"
  /\ UNCHANGED << otherVars, patchText, normalized >>

NextNorm == Normalize \/ NormalizeAgain

SpecNorm == InitNorm /\ [][NextNorm]_vars

\* ============================================================ properties
\* the git commands of the current gate invocation (the fix command's only
\* one, or the one of the current watch iteration)
OwnLog == SelectSeq(gitLog, LAMBDA e : e.iter = iteration)
Ran(op) == \E i \in DOMAIN OwnLog : OwnLog[i].op = op
Did(op) == \E i \in DOMAIN OwnLog : OwnLog[i].op = op /\ OwnLog[i].ok

\* C1: a commit is made only on a ci-fix branch that the same gate invocation
\* created by a successful git checkout -b, never on the branch that was
\* active when the gate was entered (so never on main).
C1_CommitOnlyOnOwnFixBranch ==
  [][Len(git'.commits) > Len(git.commits) =>
       /\ git'.commits = Append(git.commits, git.head)
       /\ IsCiFix(git.head)
       /\ git.head # Main
       /\ git.head # entry.head
       /\ git.head \notin entry.branches
       /\ \E i \in DOMAIN gitLog :
            gitLog[i] = [op |-> "checkout-b", ok |-> TRUE,
                         iter |-> iteration, head |-> git.head]]_vars

\* a second watch iteration has committed: its gate was entered on the first
\* iteration's fix branch
C1_Witness ==
  /\ cmd = "watch" /\ Len(git.commits) = 2 /\ IsCiFix(entry.head)
  /\ git.commits[2] # entry.head

\* C2: a patch whose record carries risk HIGH is never applied, committed or
\* pushed, whatever its confidence, in the fix command and in the watch loop.
C2_HighRiskNeverApplied ==
  (response # NoResponse /\ RiskOf(response) = "HIGH") =>
     ~Did("apply") /\ ~Did("commit") /\ ~Did("push")

\* C3: in the fix command a record with confidence below 60 is rejected before
\* any git command runs; a record with confidence 60 or more and risk other
\* than HIGH is not rejected by the policy and, once confirmed (or with --yes),
\* gets its dry-run.
C3_FixPolicyBoundary ==
  (cmd = "fix" /\ response # NoResponse) =>
     /\ response.confidence.int < 60 =>
          /\ gitLog = << >>
          /\ git = entry
          /\ gate \in {"Proposed", "Rejected"}
          /\ pc \in {"fix_policy", "done", "exit1"}
     /\ (response.confidence.int >= 60 /\ RiskOf(response) # "HIGH") =>
          /\ gate # "Rejected"
          /\ gate = "Declined" => ~yes /\ gitLog = << >>
          /\ gate = "PolicyChecked" =>
               pc \in {"fix_confirm", "fix_dryrun"} /\ (yes => pc = "fix_dryrun")
          /\ gate \notin {"Proposed", "PolicyChecked", "Declined"} =>
               Len(gitLog) > 0 /\ gitLog[1].op = "apply-check"

\* a record with confidence exactly 60 has passed its dry-run
C3_Witness ==
  /\ cmd = "fix" /\ response.confidence = Num(60) /\ gate = "DryRunValidated"

\* C4: a watch iteration whose record has confidence below 80 ends the loop
\* with a low-confidence record and runs no git command; a record with
\* confidence 80 or more goes on to the dry-run.
C4_WatchConfidenceBoundary ==
  (cmd = "watch" /\ response # NoResponse /\ gate # "Proposed") =>
     /\ response.confidence.int < 80 =>
          /\ OwnLog = << >>
          /\ git = entry
          /\ gate = "Rejected"
          /\ pc \in {"w_after", "done"}
          /\ Len(history) > 0
          /\ history[Len(history)] =
               Rec(iteration, FALSE, "low-confidence", response.confidence)
     /\ response.confidence.int >= 80 =>
          /\ gate # "Rejected"
          /\ gate = "PolicyChecked" => pc = "w_dryrun"
          /\ gate # "PolicyChecked" => Ran("apply-check")

\* a record with confidence 79 stopped a second iteration
C4_Witness ==
  /\ cmd = "watch" /\ iteration = 2 /\ response.confidence = Num(79)
  /\ gate = "Rejected" /\ pc = "done"

\* C5: git checkout -b is run only right after a successful git apply --check
\* of the same invocation; when the check fails the invocation ends with the
\* repository as it was, no branch created and nothing applied.
C5_BranchOnlyAfterDryRun ==
  /\ \A i \in DOMAIN gitLog :
       gitLog[i].op = "checkout-b" =>
          /\ i > 1
          /\ gitLog[i - 1].op = "apply-check"
          /\ gitLog[i - 1].ok
          /\ gitLog[i - 1].iter = gitLog[i].iter
  /\ gate = "DryRunFailed" =>
       /\ git = entry
       /\ pc \in {"done", "w_after"}
       /\ gitLog[Len(gitLog)] = LogEntry("apply-check", FALSE, entry)

\* the dry-run of a second watch iteration failed
C5_Witness == gate = "DryRunFailed" /\ iteration = 2 /\ Len(git.commits) = 1

\* C6: after an apply failure that follows the creation of the fix branch, the
\* invocation ends with the active branch it began with.
C6_ApplyFailureRestoresBranch ==
  gate = "RolledBack" => git.head = entry.head

\* how a gate invocation ends when it does not end in Committed
EndedUncommitted == {"Rejected", "Declined", "DryRunFailed", "RolledBack", "Failed"}

\* C7: an invocation that does not end in Committed leaves the active branch,
\* the set of branches and the working tree as they were before it, whichever
\* step failed.
C7_FailedGateLeavesRepository ==
  gate \in EndedUncommitted =>
     /\ git.head = entry.head
     /\ git.branches = entry.branches
     /\ git.tree = entry.tree

\* the branches the execution created
NewBranches ==
  {gitLog[i].head : i \in {j \in DOMAIN gitLog :
                              gitLog[j].op = "checkout-b" /\ gitLog[j].ok}}

\* C8: an invocation that ends in Committed created exactly one branch and one
\* commit, and the commit is on that branch; a finished watch run with k
\* committed invocations has created exactly k branches and k commits.
C8_OneBranchOneCommit ==
  /\ gate = "Committed" =>
       /\ Cardinality(git.branches \ entry.branches) = 1
       /\ Len(git.commits) = Len(entry.commits) + 1
       /\ git.commits[Len(git.commits)] \in git.branches \ entry.branches
  /\ (cmd = "watch" /\ pc \in {"done", "exit1"}) =>
       /\ NewBranches \subseteq git.branches
       /\ Cardinality(NewBranches) = Len(git.commits)

\* the mode the running command asks for
AskedMode == IF cmd = "fix" THEN "patch" ELSE "combined"

\* C9: when the parsed output fails validateResponse, askCopilot returns no
\* record and the command stops: the output is in none of the three cache
\* slots, the invocation has run no git command, and the history holds no
\* record of the iteration.
C9_InvalidResponseRejected ==
  (raw.kind = "json" /\ ~validateResponse(raw.parsed, AskedMode)) =>
     /\ response = NoResponse
     /\ pc = "exit1"
     /\ cache.hypotheses # raw.parsed
     /\ cache.explain # raw.parsed
     /\ cache.patch # raw.parsed
     /\ OwnLog = << >>
     /\ \A i \in DOMAIN history : history[i].iteration # iteration

\* the second watch iteration, entered after a committed and pushed fix, got
\* a response that fails validation
C9_Witness ==
  /\ cmd = "watch" /\ iteration = 2 /\ Len(git.commits) = 1
  /\ raw.kind = "json" /\ ~validateResponse(raw.parsed, "combined")
  /\ cache.patch # NoResponse
  /\ pc = "exit1"

\* the evidence ids the hypothesis entries of a record reference
Range(seq) == {seq[j] : j \in DOMAIN seq}
RefsOf(resp) ==
  UNION {Range(resp.hypotheses.items[i].evidence_refs.items) :
           i \in DOMAIN resp.hypotheses.items}

C11_NormalizeIdempotent ==
  pc = "n_twice" => renormalized = normalized

\* a text with CR LF line ends, a header without counts and a malformed
\* header has been normalized twice
C11_Witness ==
  /\ pc = "n_twice"
  /\ patchText = EndEach(<< << HBare >>, << Removed >>, << Garbage >>, << >> >>)
  /\ normalized # patchText

\* the lines of the result, without the empty one after the final LF
OutLines == LET out == Split(normalized) IN SubSeq(out, 1, Len(out) - 1)

\* the body of the header at line i: up to the next line starting with @@ or
\* with a file header, or to the end
BodyOf(ls, i) ==
  LET stops == {j \in (i + 1)..Len(ls) :
                  ls[j] # << >> /\ ls[j][1].kind \in {"hunk", "garbage", "fileheader"}}
      end == IF stops = {} THEN Len(ls) + 1
             ELSE CHOOSE j \in stops : \A k \in stops : j <= k
  IN (i + 1)..(end - 1)
FirstKind(l) == IF l = << >> THEN "" ELSE l[1].kind

Converging ==
  /\ response \in {NoResponse, Resp("combined", Num(95), Str("LOW"))}
  /\ \A i \in DOMAIN history :
       /\ history[i].outcome \notin {"low-confidence", "success"}
       /\ history[i].confidence \in {NotNum, Num(95)}
  /\ \A i \in DOMAIN gitLog : gitLog[i].ok
  /\ ~queryFailed
  /\ nRuns >= 1 /\ ~pending
  /\ \A i \in DOMAIN runs :
       runs[i].status = "completed" /\ runs[i].conclusion = "failure"

\* C14: with an oracle that always answers 95 / LOW, git and push that always
\* succeed and runs that all complete with failure, the watch command ends
\* after exactly MAX_ITERATIONS iterations with the max-iterations outcome.
C14_RunsToMaxIterations ==
  (pc = "done" /\ Converging) =>
     /\ iteration = MAX_ITERATIONS
     /\ report.warnedMax
     /\ ~report.fixed
     /\ report.reason = "max iterations reached"

\* the positions of the watch command, latest first
Phases ==
  << "w_after", "w_loop", "w_wait_done", "w_wait_new", "w_prev", "w_push", "w_commit",
     "w_stage", "w_apply", "w_branch", "w_dryrun", "w_conf", "w_ask", "w_evidence",
     "w_wait_run", "w_status" >>
Rank(p) == IF p \in {"done", "exit1"} THEN 0 ELSE CHOOSE i \in DOMAIN Phases : Phases[i] = p
Ticks == POLL_TIMEOUT_MS \div POLL_INTERVAL_MS

\* what is left to do: iterations, then positions in the iteration, then turns of a wait
Measure ==
  ((MAX_ITERATIONS - iteration) * (Len(Phases) + 1) + Rank(pc)) * (Ticks + 1)
    + remaining \div POLL_INTERVAL_MS

Ended == pc \in {"done", "exit1"}

\* a step of the command itself, a turn of a wait included
ControllerStep ==
  \/ WatchIterate \/ WatchCollectEvidence \/ WatchAskFew \/ WatchConfidence
  \/ WatchDryRun \/ WatchCreateBranch \/ WatchApply \/ WatchStage \/ WatchCommit
  \/ WatchPush \/ WatchScoreboard \/ poller

\* C15: the watch command terminates when every external command returns: it
\* never passes MAX_ITERATIONS iterations, it always has a next step until it
\* has ended, and each of its steps, every sleep-and-query turn of a wait
\* included, brings it nearer to the end by a measure in the naturals that the
\* pipeline cannot raise, whether or not the pipeline produces or completes a run.
C15_WatchTerminates ==
  /\ [](/\ iteration <= MAX_ITERATIONS
        /\ Measure \in Nat
        /\ ~Ended => ENABLED ControllerStep)
  /\ [][IF ControllerStep THEN Measure' < Measure ELSE Measure' = Measure]_vars

\* a wait has timed out on a pipeline that never produced a run
C15_Witness ==
  /\ pc = "done" /\ report.printed
  /\ nRuns = 0 /\ iteration = 1 /\ history = << >>

\* a git command of the current iteration has failed
GitFailed == \E i \in DOMAIN OwnLog : ~OwnLog[i].ok

\* the last record of the history is a failure outcome of the current iteration
FailureRecorded ==
  /\ history # << >>
  /\ history[Len(history)].iteration = iteration
  /\ ~history[Len(history)].half
  /\ history[Len(history)].outcome \in {"apply-failed", "push-failed"}

\* C16: whatever fails inside a watch iteration, the watch command ends by
\* the final summary and never by the exit of the outer catch, and a failed
\* git command has its failure outcome as the last record of the history.
C16_FailuresRecorded ==
  (cmd = "watch" /\ Ended) =>
     /\ pc = "done" /\ report.printed
     /\ GitFailed => FailureRecorded

\* the loop was left by its condition: MAX_ITERATIONS iterations were made
\* and the run of the last push failed
StoppedByBound ==
  /\ iteration = MAX_ITERATIONS
  /\ history # << >>
  /\ history[Len(history)].outcome = "fix-pushed"
  /\ history[Len(history)].iteration = MAX_ITERATIONS

\* C17: the verdict of the final summary is read off the history alone and
\* names what stopped the loop: a recorded terminal outcome gives its own
\* reason, and "max iterations reached" is reported only when the loop was
\* left after MAX_ITERATIONS iterations, never for a timeout.
C17_VerdictAgreesWithStop ==
  (cmd = "watch" /\ pc = "done") =>
     /\ report.fixed = (lastOutcome(history) = "success")
     /\ ~report.fixed => report.reason = Reason(lastOutcome(history))
     /\ (~report.fixed /\ report.reason = "max iterations reached") => StoppedByBound
     /\ (~report.fixed /\ report.reason # "max iterations reached") =>
           lastOutcome(history) \in {"low-confidence", "apply-failed", "push-failed", "timeout"}

\* ------------------------------------------------------------ poller properties
\* waitForNewRunToComplete returns to watchCommand
NewRunWaitEnds == pc \in {"w_wait_new", "w_wait_done"} /\ pc' \in {"w_after", "w_loop"}

\* C18: when the wait after a push returns, no query has failed, the wait has
\* not taken up a run started by another event, and the run triggered by the
\* push has completed, then what the wait returns is the conclusion of that
\* run, whenever the pipeline created it.
C18_AwaitsTriggeredRun ==
  [][\A i \in DOMAIN runs :
       (/\ NewRunWaitEnds
        /\ ~queryFailed'
        /\ newRunId \in {0, i}
        /\ runs[i].origin = "push" /\ runs[i].status = "completed")
       => (IF pc' = "w_loop" THEN "failure" ELSE lastOutcome(history'))
             = runs[i].conclusion]_vars

\* ------------------------------------------------------------ branch name properties
\* the current gate invocation ran git checkout -b for a name that was taken
NameTaken == Ran("checkout-b") /\ branchName \in entry.branches

\* C19: a fix branch name is ci-fix/ followed by the date and the time of
\* the clock to the second (YYYYMMDD-HHMMSS), whatever the milliseconds; when
\* the name computed already exists, git checkout -b fails, the command ends,
\* and the repository, the existing branch included, is as it was: nothing
\* is applied, staged or committed by that invocation.
C19_TakenNameFailsCreation ==
  /\ IsCiFix(branchName) =>
       \A ms \in {0, 500, 999} :
         LET name == BranchNameAt(Clock(branchName.ts, ms)) IN
         /\ name = BranchNameAt(Clock(branchName.ts, 0))
         /\ Len(name) = 22
         /\ SubSeq(name, 1, 7) = << "c", "i", "-", "f", "i", "x", "/" >>
         /\ name[16] = "-"
         /\ \A k \in (8..22) \ {16} : name[k] \in {DigitChar(d) : d \in 0..9}
  /\ NameTaken =>
       /\ ~Did("checkout-b")
       /\ pc = "exit1" /\ gate = "Failed"
       /\ git = entry
       /\ ~Ran("apply") /\ ~Ran("add") /\ ~Ran("commit")

\* the second branch of the same second: the name of an existing ci-fix
\* branch was computed again and the command has ended
C19_Witness ==
  /\ NameTaken /\ IsCiFix(branchName)
  /\ pc = "exit1"
  /\ BranchNameAt(Clock(branchName.ts, 999)) =
       << "c", "i", "-", "f", "i", "x", "/", "2", "0", "2", "6", "1", "2", "3", "1",
          "-", "2", "3", "5", "9", "5", "8" >>

\* ------------------------------------------------------------ confirmation properties
\* the answers that mean yes
Affirmative == {"y", "Y", " y ", " Y"}

\* C20: in the fix command the confirmation is asked only without --yes and
\* only after the policy check has passed; no git command (dry-run, branch,
\* apply, stage, commit) runs unless the policy check has passed and, without
\* --yes, the user has answered yes; a declined or rejected patch leaves the
\* repository alone, and a rejected one is never put to the user.
C20_ConfirmAfterPolicy ==
  cmd = "fix" =>
     /\ pc = "fix_confirm" =>
          ~yes /\ gate = "PolicyChecked" /\ FixPolicyPass(response) /\ gitLog = << >>
     /\ answer # NoAnswer => ~yes /\ FixPolicyPass(response)
     /\ gitLog # << >> => FixPolicyPass(response) /\ (yes \/ answer \in Affirmative)
     /\ gate = "Declined" =>
          answer \notin Affirmative /\ gitLog = << >> /\ git = entry /\ pc = "done"
     /\ gate = "Rejected" =>
          ~FixPolicyPass(response) /\ answer = NoAnswer /\ gitLog = << >> /\ git = entry

\* the user typed " Y" and the patch was committed on a new branch
C20_Witness ==
  /\ cmd = "fix" /\ ~yes
  /\ answer = " Y"
  /\ gate = "Committed" /\ Did("commit")

\* ------------------------------------------------------------ suspension properties
\* where watchCommand awaits something outside the safe-apply steps: the status
\* query, the sleeps and queries of the three polling loops, the evidence
\* collection and the Copilot call
SuspensionPoints ==
  {"w_status", "w_wait_run", "w_evidence", "w_ask", "w_prev", "w_wait_new", "w_wait_done"}

\* C21: wherever the watch command is suspended outside the safe-apply steps,
\* the working tree is clean and either nothing has been changed or every
\* branch the run created carries its one commit and the latest of them is
\* active: no created-but-unapplied branch, no applied-but-uncommitted patch.
C21_SuspendedOnWholeStates ==
  (cmd = "watch" /\ pc \in SuspensionPoints) =>
     /\ git.tree = "clean"
     /\ NewBranches = Range(git.commits)
     /\ Cardinality(NewBranches) = Len(git.commits)
     /\ IF git.commits = << >>
        THEN git = entry
        ELSE git.head = git.commits[Len(git.commits)]

\* the second loop of the wait after a push, on the committed fix branch
C21_Witness ==
  /\ cmd = "watch" /\ pc = "w_wait_done"
  /\ Len(git.commits) = 1 /\ git.head = git.commits[1] /\ IsCiFix(git.head)
  /\ git.tree = "clean"

Latest == IF nRuns \in DOMAIN runs THEN runs[nRuns] ELSE NoRun

\* a step of the status check or of its wait (not one of the pipeline)
StatusStep ==
  /\ pc \in {"w_status", "w_wait_run"}
  /\ << pc, remaining >>' # << pc, remaining >>

\* C23: the status check lets an iteration go on to evidence collection only
\* on a latest run that completed without success; on a latest run that
\* completed with success, seen at once or at the end of the wait, it leaves
\* the loop with the success record, and that iteration has asked Copilot
\* nothing and run no git command; the run is then reported as fixed.
C23_StatusCheckGuardsIteration ==
  /\ [][(StatusStep /\ pc' = "w_evidence") =>
          /\ Latest.status = "completed" /\ Latest.conclusion # "success"
          /\ history' = history]_vars
  /\ [][(StatusStep /\ ~queryFailed' /\ Latest.status = "completed"
           /\ Latest.conclusion = "success") =>
          /\ pc' = "w_after"
          /\ history' = Append(history, Rec(iteration, FALSE, "success", NotNum))]_vars
  /\ []((cmd = "watch" /\ history # << >>
           /\ history[Len(history)] = Rec(iteration, FALSE, "success", NotNum)) =>
          /\ pc \in {"w_after", "done"}
          /\ response = NoResponse /\ gate = "none" /\ branchName = NoBranch
          /\ OwnLog = << >>
          /\ pc = "done" => report.fixed)

\* the second iteration found the latest run passing and the run was reported fixed
C23_Witness ==
  /\ cmd = "watch" /\ pc = "done" /\ report.fixed
  /\ iteration = 2 /\ Len(history) = 2
  /\ history[2] = Rec(2, FALSE, "success", NotNum)

\* the step runs git push
Pushes == Len(gitLog') = Len(gitLog) + 1 /\ gitLog'[Len(gitLog')].op = "push"

\* C24: in the watch command git push runs only after the commit of the same
\* iteration; once the dry-run or the apply has failed, the apply-failed
\* record is the last of the history, and nothing follows but the final
\* summary, which reports a failed patch apply: no push, no wait for a run,
\* no other iteration.
C24_PushOnlyAfterCommit ==
  /\ [][(cmd = "watch" /\ Pushes) => (gate = "Committed" /\ Did("commit"))]_vars
  /\ [][(cmd = "watch" /\ gate \in {"DryRunFailed", "RolledBack"}) =>
          /\ pc = "w_after" /\ pc' = "done"
          /\ << iteration, history, gitLog, git >>' = << iteration, history, gitLog, git >>]_vars
  /\ []((cmd = "watch" /\ gate \in {"DryRunFailed", "RolledBack"}) =>
          /\ history # << >>
          /\ history[Len(history)] = Rec(iteration, FALSE, "apply-failed", NotNum)
          /\ ~Ran("push") /\ ~Ran("commit")
          /\ pc = "done" => (~report.fixed /\ report.reason = "patch apply failed"))

\* git apply failed in the second iteration, after the first had pushed its fix
C24_Witness ==
  /\ cmd = "watch" /\ pc = "done" /\ gate = "RolledBack"
  /\ iteration = 2 /\ Len(history) = 2
  /\ history[1].outcome = "fix-pushed" /\ history[2].outcome = "apply-failed"

\* git push of the current iteration has failed
PushFailed == Ran("push") /\ ~Did("push")

\* C25: once git push has failed in the watch command, the push-failed record
\* is the last of the history and nothing follows but the final summary, which
\* reports a failed push: no wait for a new run is started, no other iteration
\* begins and Copilot is not asked again.
C25_PushFailureStopsLoop ==
  /\ [][(cmd = "watch" /\ PushFailed) =>
          /\ pc = "w_after" /\ pc' = "done"
          /\ << iteration, history, gitLog, git, raw, response, pollVars, pending >>'
               = << iteration, history, gitLog, git, raw, response, pollVars, pending >>]_vars
  /\ []((cmd = "watch" /\ PushFailed) =>
          /\ gate = "Committed"
          /\ history[Len(history)] = Rec(iteration, FALSE, "push-failed", NotNum)
          /\ remaining = 0 /\ prevId = 0 /\ newRunId = 0
          /\ pc = "done" => (~report.fixed /\ report.reason = "push failed"))

\* the push of the first iteration failed and the run has ended
C25_Witness ==
  /\ cmd = "watch" /\ pc = "done" /\ PushFailed
  /\ iteration = 1 /\ Len(history) = 1
  /\ report.reason = "push failed"

\* ------------------------------------------------------------ history properties
\* the records iteration k has appended, and its half-step records
RecordsOf(k) == {i \in DOMAIN history : history[i].iteration = k /\ ~history[i].half}
HalfStepsOf(k) == {i \in DOMAIN history : history[i].iteration = k /\ history[i].half}

\* C26: when an iteration of the watch loop has ended, whichever way, it has
\* appended exactly one record to the history, and a half-step record besides
\* exactly when the new run after its push completed with success.
C26_OneRecordPerIteration ==
  (cmd = "watch" /\ pc \in {"w_loop", "w_after", "done"}) =>
     \A k \in 1..iteration :
       /\ Cardinality(RecordsOf(k)) = 1
       /\ Cardinality(HalfStepsOf(k)) <= 1
       /\ \A i \in HalfStepsOf(k) : history[i].outcome = "success"

\* the outcomes an iteration record may carry
Outcomes ==
  {"success", "low-confidence", "apply-failed", "push-failed", "timeout", "max-iterations"}

\* C27: every record of the iteration history of the watch command carries
\* one of the outcomes success, low-confidence, apply-failed, push-failed,
\* timeout, max-iterations.
C27_OutcomesInTaxonomy ==
  cmd = "watch" => \A i \in DOMAIN history : history[i].outcome \in Outcomes

\* the three polling loops
PollingLoops == {"w_wait_run", "w_wait_new", "w_wait_done"}

\* C28: a polling loop goes round again only when its query answered and the
\* awaited state is not there yet; a turn whose gh query fails with an error
\* ends the wait, and the failure ends the loop of the watch command.
C28_QueryErrorEndsWait ==
  [][(pc \in PollingLoops /\ ~queryFailed /\ queryFailed') =>
        pc' \in {"w_after", "exit1"}]_vars

\* ------------------------------------------------- askCopilot, every mode
\* The four commands that call askCopilot, and the mode each one passes:
\* analyze asks for hypotheses, explain for explain, fix for patch and the
\* watch loop for combined.
Commands == {"analyze", "explain", "fix", "watch"}

ModeOf(c) ==
  CASE c = "analyze" -> "hypotheses"
    [] c = "explain" -> "explain"
    [] c = "fix" -> "patch"
    [] OTHER -> "combined"

\* Hypothesis lists whose faulty entry stands first, or last, among sound ones.
MixedHyps ==
  LET good == Hyp(Num(90), Str("cause"), Arr(<< "E4" >>))
      noTitle == Hyp(Num(90), Undef, Arr(<< "E4" >>))
      emptyTitle == Hyp(Num(90), Str(""), Arr(<< "E4" >>))
      noRefs == Hyp(Num(90), Str("cause"), NoArr)
      noRefsAtAll == Hyp(Num(90), Undef, NoArr)
      emptyRefs == Hyp(Num(90), Str("cause"), Arr(<< >>)) IN
  { Arr(<< noTitle, good >>), Arr(<< good, noTitle >>),
    Arr(<< good, good, noTitle >>), Arr(<< emptyTitle, good >>),
    Arr(<< noRefs, good >>), Arr(<< good, noRefs >>),
    Arr(<< good, noRefs, good >>), Arr(<< noRefsAtAll >>),
    Arr(<< emptyRefs >>), Arr(<< emptyRefs, emptyRefs >>),
    Arr(<< good, emptyRefs >>) }

\* What the CLI may print whatever mode was asked for: an answer written for
\* any of the four modes, with any of the hypothesis lists above.
AnyOutputs ==
  UNION { CliOutputs(m) : m \in VALID_MODES }
  \cup { [kind |-> "json",
          parsed |-> [Resp(m, Num(95), Str("LOW")) EXCEPT !.hypotheses = hs]] :
            m \in VALID_MODES, hs \in MixedHyps }

InitAsk ==
  /\ cmd \in Commands
  /\ yes = FALSE
  /\ pc = "ask"
  /\ raw = NoOutput
  /\ response = NoResponse
  /\ cache = [hypotheses |-> NoResponse, explain |-> NoResponse, patch |-> NoResponse]
  /\ InitGit
  /\ gate = "none"
  /\ entry = git
  /\ gitLog = << >>
  /\ iteration = 0
  /\ history = << >>
  /\ remaining = 0 /\ knownRunId = 0 /\ prevId = 0 /\ newRunId = 0
  /\ runs = << >> /\ nRuns = 0
  /\ pending = FALSE
  /\ report = NoReport
  /\ patchText = << >> /\ normalized = << >> /\ renormalized = << >>
  /\ queryFailed = FALSE
  /\ branchName = NoBranch
  /\ answer = NoAnswer
  /\ copilotCalls = 0

\* askCopilot({ mode, evidenceBundle }): the CLI call, the extraction, the
\* validation; it returns the parsed response or throws.
AskCopilot ==
  /\ pc = "ask"
  /\ copilotCalls' = copilotCalls + 1
  /\ \E out \in AnyOutputs :
       LET r == askCopilot(out, ModeOf(cmd)) IN
       /\ raw' = out
       /\ response' = IF r.ok THEN r.value ELSE NoResponse
       /\ pc' = IF r.ok THEN "returned" ELSE "threw"
  /\ UNCHANGED << normVars, answer, branchName, queryFailed, cmd, yes, cache,
                  git, gate, entry, gitLog, watchVars >>

\* analyze: writeCache("latest-hypotheses.json", response) once askCopilot
\* has returned.
AnalyzeCache ==
  /\ pc = "returned" /\ cmd = "analyze"
  /\ cache' = [cache EXCEPT !.hypotheses = response]
  /\ pc' = "analyze_show"
  /\ UNCHANGED << normVars, copilotCalls, answer, branchName, queryFailed, cmd, yes, raw,
                  response, git, gate, entry, gitLog, watchVars >>

NextAsk == AskCopilot \/ AnalyzeCache

SpecAsk == InitAsk /\ [][NextAsk]_vars

\* the rules of the mode a response declares
RulesOf(p) ==
  CASE p.mode = "hypotheses" -> validateHypotheses(p)
    [] p.mode = "explain" -> validateExplain(p)
    [] p.mode = "patch" -> validatePatch(p)
    [] p.mode = "combined" ->
         validateHypotheses(p) /\ validateExplain(p) /\ validatePatch(p)
    [] OTHER -> FALSE

Acceptable(p, requested) ==
  /\ p.isObject
  /\ p.version = RESPONSE_VERSION
  /\ p.mode \in {"hypotheses", "explain", "patch", "combined"}
  /\ p.mode = requested
  /\ RulesOf(p)

Returned == pc \in {"returned", "analyze_show"}

\* C29: a parsed response is accepted for the requested mode exactly when it
\* is an object, carries the contract version, declares one of the four
\* modes, declares the requested mode and meets the rules of that mode (all
\* three rule sets for combined); askCopilot then returns that very response,
\* and throws in every other case.
C29_AcceptsExactly ==
  (pc # "ask" /\ raw.kind = "json") =>
     /\ Returned <=> Acceptable(raw.parsed, ModeOf(cmd))
     /\ Returned => response = raw.parsed
     /\ pc = "threw" \/ Returned

C29_Witness ==
  /\ pc = "returned" /\ cmd = "watch"
  /\ raw.kind = "json" /\ raw.parsed.mode = "combined"

HypothesisBearing == {"hypotheses", "combined"}

LacksTitle(h) == h.title.kind = "undefined"
LacksRefs(h) == ~h.evidence_refs.isArray

BadHypotheses(p) ==
  \/ ~p.hypotheses.isArray
  \/ Len(p.hypotheses.items) = 0
  \/ \E i \in 1..Len(p.hypotheses.items) :
       LacksTitle(p.hypotheses.items[i]) \/ LacksRefs(p.hypotheses.items[i])

\* the response with every empty evidence-reference list filled in
WithRefs(p) ==
  [p EXCEPT !.hypotheses.items =
     [i \in 1..Len(p.hypotheses.items) |->
        IF p.hypotheses.items[i].evidence_refs = Arr(<< >>)
        THEN [p.hypotheses.items[i] EXCEPT !.evidence_refs = Arr(<< "E4" >>)]
        ELSE p.hypotheses.items[i]]]

\* C30: when hypotheses or combined is asked for or declared, a response
\* whose hypothesis list is missing or empty, or holds at any position an
\* entry without a title or without an evidence-reference list, makes
\* askCopilot throw: nothing of it is returned or cached.  An empty
\* evidence-reference list is never what a response is rejected for.
C30_BadHypothesesRejected ==
  (pc # "ask" /\ raw.kind = "json") =>
     /\ ( /\ BadHypotheses(raw.parsed)
          /\ (ModeOf(cmd) \in HypothesisBearing
                \/ raw.parsed.mode \in HypothesisBearing) )
          => (pc = "threw" /\ response = NoResponse
                /\ cache.hypotheses = NoResponse)
     /\ pc = "threw" => ~validateResponse(WithRefs(raw.parsed), ModeOf(cmd))

C30_Witness ==
  /\ pc = "threw" /\ raw.kind = "json"
  /\ ModeOf(cmd) \in HypothesisBearing
  /\ validateResponse([raw.parsed EXCEPT !.hypotheses = GoodHyps], ModeOf(cmd))
  /\ Len(raw.parsed.hypotheses.items) >= 2
  /\ HypothesisOk(raw.parsed.hypotheses.items[1])
  /\ LacksTitle(raw.parsed.hypotheses.items[Len(raw.parsed.hypotheses.items)])

\* a JS value that is an integer between 0 and 100
IntegerInRange(c) == c.isNumber /\ ~c.half /\ c.int >= 0 /\ c.int <= 100

\* C31: every confidence of a response askCopilot returned is an integer in
\* 0..100: each hypothesis entry's confidence when the mode is hypotheses or
\* combined, and the top-level confidence when it is explain, patch or
\* combined.
C31_ConfidenceIsInteger ==
  Returned =>
     /\ ModeOf(cmd) \in HypothesisBearing =>
          \A i \in 1..Len(response.hypotheses.items) :
             IntegerInRange(response.hypotheses.items[i].confidence)
     /\ ModeOf(cmd) \in {"explain", "patch", "combined"} =>
          IntegerInRange(response.confidence)

\* The normalizer on texts with their line ends as a diff tool or an oracle
\* writes them: lines that may be context lines, blank context lines (a
\* single space) or empty.
\* " ctx": a context line
Context == Sym("context")

TextLineKinds == { << H11 >>, << Garbage >>, << Removed >>, << Added >>,
                   << Context >>, << SP >>, << >> }
\* how the text ends: nothing after the last line, one LF, two carriage
\* returns, or three LF
Endings == {"bare", "lf", "crs", "blanks"}
EndWith(lines, e) ==
  CASE e = "bare" -> Join(lines)
    [] e = "lf" -> Join(lines) \o << LF >>
    [] e = "crs" -> Join(lines) \o << CR, CR >>
    [] OTHER -> Join(lines) \o << LF, LF, LF >>
EndedTexts(maxLines) ==
  { EndWith(lines, e) :
      lines \in UNION { [1..n -> TextLineKinds] : n \in 0..maxLines },
      e \in Endings }

InitText ==
  /\ cmd = "fix" /\ yes = FALSE
  /\ pc = "n_input"
  /\ raw = NoOutput
  /\ response = NoResponse
  /\ cache = [hypotheses |-> NoResponse, explain |-> NoResponse, patch |-> NoResponse]
  /\ git = [branches |-> {Main}, head |-> Main, prev |-> Main,
            tree |-> "clean", commits |-> << >>]
  /\ gate = "none"
  /\ entry = git
  /\ gitLog = << >>
  /\ iteration = 0
  /\ history = << >>
  /\ remaining = 0 /\ knownRunId = 0 /\ prevId = 0 /\ newRunId = 0
  /\ runs = << >> /\ nRuns = 0
  /\ pending = FALSE
  /\ report = NoReport
  /\ patchText \in EndedTexts(MaxLines)
  /\ normalized = << >> /\ renormalized = << >>
  /\ queryFailed = FALSE
  /\ branchName = NoBranch
  /\ answer = NoAnswer
  /\ copilotCalls = 0

NextText == Normalize \/ NormalizeAgain

SpecText == InitText /\ [][NextText]_vars

\* the text has LF line ends and exactly one trailing newline
OneTrailingNewline(text) ==
  /\ \A i \in DOMAIN text : text[i].kind # "CR"
  /\ text # << >> /\ text[Len(text)] = LF
  /\ Len(text) >= 2 => text[Len(text) - 1] # LF

\* the lines of the text handed in, without the empty one after the final LF
InLines == LET in == Split(patchText) IN SubSeq(in, 1, Len(in) - 1)

\* the header at line i carries the counts of its body
CarriesCounts(ls, i) ==
  LET body == BodyOf(ls, i)
      removed == Cardinality({j \in body : FirstKind(ls[j]) = "removed"})
      added == Cardinality({j \in body : FirstKind(ls[j]) = "added"})
      other == Cardinality({j \in body : FirstKind(ls[j]) \notin {"removed", "added"}})
  IN /\ ls[i][1].oldStart.zeros = 0 /\ ls[i][1].newStart.zeros = 0
     /\ ls[i][1].oldCount = Count(TRUE, TRUE, Digits(0, removed + other))
     /\ ls[i][1].newCount = Count(TRUE, TRUE, Digits(0, added + other))

\* C32: for a text with LF line ends and exactly one trailing newline, every
\* line that is not a recognized hunk header is in the result unchanged and
\* at its place; a text without a recognized header, and a text whose
\* recognized headers all carry the counts of their bodies, comes back
\* identical.
C32_OnlyHeadersChange ==
  (pc \in {"n_once", "n_twice"} /\ OneTrailingNewline(patchText)) =>
     /\ Len(OutLines) = Len(InLines)
     /\ \A i \in DOMAIN InLines :
          (i <= Len(OutLines) /\ ~Matches(InLines[i])) => OutLines[i] = InLines[i]
     /\ (\A i \in DOMAIN InLines : ~Matches(InLines[i])) => normalized = patchText
     /\ (\A i \in DOMAIN InLines : Matches(InLines[i]) => CarriesCounts(InLines, i))
           => normalized = patchText

\* the text ends with exactly one LF and holds no CR
EndsWithOneNewline(text) ==
  /\ text # << >> /\ text[Len(text)] = LF
  /\ Len(text) >= 2 => text[Len(text) - 1] # LF
  /\ \A i \in DOMAIN text : text[i].kind # "CR"

\* C33: whatever the text handed in (the empty text, a text ending in blank
\* lines or in carriage returns), what normalizePatch returns ends with
\* exactly one newline and holds no carriage return.
C33_EndsWithOneNewline ==
  /\ pc \in {"n_once", "n_twice"} => EndsWithOneNewline(normalized)
  /\ pc = "n_twice" => EndsWithOneNewline(renormalized)

\* the empty text, a text ending in three newlines and a text ending in two
\* carriage returns have each been normalized
C33_Witness ==
  /\ pc = "n_once"
  /\ \/ patchText = << >> /\ normalized = << LF >>
     \/ patchText = << Removed, LF, LF, LF >> /\ normalized = << Removed, LF >>
     \/ patchText = << Removed, CR, CR >> /\ normalized = << Removed, LF >>

\* ------------------------------------------------------------ new-run wait properties
\* what waitForNewRunToComplete returned, read off what watchCommand did with it
NewRunWaitResult == IF pc' = "w_loop" THEN "failure" ELSE lastOutcome(history')

\* C34: waitForNewRunToComplete enters its second loop only with the id of a
\* run it has just seen as the latest and that differs from previousRunId,
\* and keeps that id; from its first loop it returns nothing but timeout; and
\* a conclusion it returns is that of the run with that id, whose status is
\* completed at that moment.
C34_TwoPhases ==
  /\ [](pc = "w_wait_done" =>
          newRunId # 0 /\ newRunId # prevId /\ newRunId \in DOMAIN runs)
  /\ [][(pc = "w_wait_new" /\ pc' = "w_wait_done") =>
          /\ Latest.id # 0 /\ Latest.id # prevId
          /\ newRunId' = Latest.id]_vars
  /\ [][(pc = "w_wait_done" /\ newRunId' # newRunId) => NewRunWaitEnds]_vars
  /\ [][(pc = "w_wait_new" /\ NewRunWaitEnds) =>
          NewRunWaitResult = "timeout" /\ newRunId = 0]_vars
  /\ [][(pc = "w_wait_done" /\ NewRunWaitEnds /\ NewRunWaitResult # "timeout") =>
          /\ runs[newRunId].status = "completed"
          /\ NewRunWaitResult = runs[newRunId].conclusion]_vars

\* the wait returned success for the run it had detected after a later run
\* had become the latest one
C34_Witness ==
  /\ pc = "w_after" /\ Len(history) = 2
  /\ history[2] = Rec(1, TRUE, "success", NotNum)
  /\ nRuns >= 2 /\ runs[nRuns].status # "completed"

\* the two loops of waitForNewRunToComplete
NewRunWait == {"w_wait_new", "w_wait_done"}

\* C35: one call of waitForNewRunToComplete has a single deadline for both
\* of its loops: the time left is at most POLL_TIMEOUT_MS, and every
\* sleep-and-query turn after which the call goes on, the turn that detects
\* the new run included, takes POLL_INTERVAL_MS off it, so that the call
\* makes at most POLL_TIMEOUT_MS / POLL_INTERVAL_MS turns.
C35_SingleDeadline ==
  /\ [](pc \in NewRunWait =>
          remaining > 0 /\ remaining <= Ticks * POLL_INTERVAL_MS)
  /\ [][(pc \in NewRunWait /\ pc' \in NewRunWait /\ (WaitNewTick \/ WaitDoneTick)) =>
          remaining' = remaining - POLL_INTERVAL_MS]_vars

\* ------------------------------------------------------------ max-iterations properties
\* the end of the run says that the maximum number of iterations was reached
ReportsMaxIterations ==
  \/ report.warnedMax
  \/ ~report.fixed /\ report.reason = "max iterations reached"

\* C36: reaching the maximum number of iterations is reported, by the
\* warning after the loop or by the verdict of the scoreboard, only for a
\* run whose loop was left by its bound; a run ended by success,
\* low-confidence, apply-failed, push-failed or timeout is not so reported,
\* in the last permitted iteration either.
C36_MaxIterationsOnlyByBound ==
  (cmd = "watch" /\ pc = "done") => (ReportsMaxIterations => StoppedByBound)

\* ------------------------------------------------------------ status wait properties
\* waitForRunCompletion returned a conclusion, not timeout, to watchCommand
StatusWaitConcludes ==
  /\ pc = "w_wait_run"
  /\ pc' = "w_evidence" \/ (pc' = "w_after" /\ history' # history)

\* C37: waitForRunCompletion called with the id of a run in progress returns
\* a conclusion only of the run with that id: at the turn that returns it,
\* the run whose conclusion is returned is the known run, completed.
C37_WaitsForKnownRun ==
  [][(StatusWaitConcludes /\ knownRunId # 0) =>
        Latest.id = knownRunId /\ Latest.status = "completed"]_vars

\* ------------------------------------------------------------ pull request properties
\* the run has committed a fix and pushed it
FixPushed ==
  /\ \E i \in DOMAIN gitLog : gitLog[i].op = "commit" /\ gitLog[i].ok
  /\ \E i \in DOMAIN gitLog : gitLog[i].op = "push" /\ gitLog[i].ok

\* C38: the watch command creates a pull request against main only at the
\* end of a run that committed and pushed at least one fix; a run that found
\* the pipeline passing at its first status check creates none.
C38_PullRequestOnlyAfterFix ==
  (cmd = "watch" /\ pc = "done" /\ report.pr = "created") => FixPushed

\* ------------------------------------------------------------ per-iteration budget properties
\* the git commands `op` of iteration k, and of the whole run, as places in the log
OpsIn(op, k) == {i \in DOMAIN gitLog : gitLog[i].op = op /\ gitLog[i].iter = k}
Ops(op) == {i \in DOMAIN gitLog : gitLog[i].op = op}

\* C39: in a watch run every iteration calls Copilot at most once, commits
\* at most once and pushes at most once, the call before any git command of
\* the iteration and the push after its commit; and over the run
\* pushes <= commits <= Copilot calls <= iterations started <= MAX_ITERATIONS.
C39_OneCallCommitPushPerIteration ==
  /\ [](cmd = "watch" =>
          /\ \A k \in 1..MAX_ITERATIONS :
               Cardinality(OpsIn("commit", k)) <= 1 /\ Cardinality(OpsIn("push", k)) <= 1
          /\ \A i \in Ops("push") :
               \E j \in OpsIn("commit", gitLog[i].iter) : j < i /\ gitLog[j].ok
          /\ Cardinality(Ops("push")) <= Cardinality(Ops("commit"))
          /\ Cardinality(Ops("commit")) <= copilotCalls
          /\ copilotCalls <= iteration
          /\ iteration <= MAX_ITERATIONS)
  /\ [][(cmd = "watch" /\ copilotCalls' # copilotCalls) =>
          /\ copilotCalls' = copilotCalls + 1
          /\ copilotCalls = iteration - 1
          /\ OwnLog = << >>]_vars

\* five iterations, each with its call, its commit and its push
C39_Witness ==
  /\ cmd = "watch" /\ pc = "done" /\ iteration = MAX_ITERATIONS
  /\ copilotCalls = MAX_ITERATIONS
  /\ Cardinality(Ops("commit")) = MAX_ITERATIONS
  /\ Cardinality(Ops("push")) = MAX_ITERATIONS

====
